---------------------------- MODULE Spec2Model ----------------------------
(***************************************************************************)
(* State-machine model of react-vnc-lib's VNCClient (src/core/VNCClient.ts)*)
(* and of the codec it uses (src/utils/protocol.ts).                       *)
(*                                                                         *)
(* JavaScript runs every callback to completion, so one action is one      *)
(* whole public call, transport callback or timer callback.  Each method   *)
(* of the class is an operator from a snapshot record of the object (and   *)
(* of the WebSocket objects it created) to the snapshot after the call;    *)
(* an action applies one entry point to the current variables.             *)
(*                                                                         *)
(* The transport is the WebSocket API.  A socket delivers `open` only      *)
(* while CONNECTING, `message` while OPEN and, since README.md lists       *)
(* Node.js among the runtimes (whose WebSocket implementations keep        *)
(* delivering data frames until the closing handshake has completed),      *)
(* also while CLOSING if it had opened; `error` is followed by `close`;    *)
(* nothing is delivered after `close`.  A callback that was set to null is *)
(* never run.                                                              *)
(***************************************************************************)
EXTENDS Integers, Sequences, FiniteSets, TLC

\* ------------------------------------------------------------------ bounds

\* Number of WebSocket objects the client may create in one behaviour.
MaxSockets == 2

\* ---------------------------------------------------------------- constants

maxReconnectAttempts == 3

Null == "<null>"

\* ------------------------------------------------------------------- state

VARIABLES
  options,            \* Required<VNCClientOptions>, fixed by the constructor
  ws,                 \* this.ws: 0 (null) or the index of a socket in sockets
  state,              \* this.state: VNCConnectionState
  serverInit,         \* this.serverInit: <<>> (null) or <<the parsed message>>
  connectionTimeout,  \* this.connectionTimeout: "null", "armed" (handle of a pending timer) or "fired" (stale handle)
  reconnectAttempts,  \* this.reconnectAttempts
  vncState,           \* this.vncState
  eventHandlers,      \* this.eventHandlers: event type -> sequence of handlers
  sockets,            \* every WebSocket object created so far
  promises,           \* promises[i]: the deferred result of the connect() call that created socket i
  reconnectTimers,    \* delays of the pending setTimeout callbacks of attemptReconnect
  op,                 \* the entry point the last step ran, with its input
  thrown,             \* message of the Error the last step's call threw, or Null
  emitted,            \* the emit() calls of the last step, in order
  sent,               \* the WebSocket.send() calls of the last step, in order
  called,             \* the handlers registered by the application that the last step invoked, in order
  effects,            \* the emit() calls, handler invocations and send() calls of the last step, in one order
  returned,           \* the buffer returned by the last call of a message builder, or Null
  hookOptions,        \* UseVNCOptions of the component that calls useVNC
  clients,            \* every VNCClient the hook's effect created, as snapshots
  clientRef,          \* clientRef.current: 0 (null) or the index of a client in clients
  isMountedRef,       \* isMountedRef.current
  effectActive,       \* the initialise-client effect has run and was not cleaned up since
  cleanupTimers,      \* clients whose deferred disconnection (setTimeout 100) is pending, oldest first
  hook                \* the component's useState values: state and loading

clientVars == <<options, ws, state, serverInit, connectionTimeout, reconnectAttempts,
                vncState, eventHandlers>>
envVars == <<sockets, promises, reconnectTimers>>
obsVars == <<op, thrown, emitted, sent, called, effects>>
hookVars == <<hookOptions, clients, clientRef, isMountedRef, effectActive, cleanupTimers>>
vars == <<clientVars, envVars, obsVars, returned, hookVars, hook>>

\* The snapshot the method operators work on.
Cur ==
  [options |-> options, ws |-> ws, state |-> state, serverInit |-> serverInit,
   connectionTimeout |-> connectionTimeout, reconnectAttempts |-> reconnectAttempts,
   vncState |-> vncState, eventHandlers |-> eventHandlers, sockets |-> sockets,
   promises |-> promises, reconnectTimers |-> reconnectTimers,
   op |-> op, thrown |-> thrown, emitted |-> emitted, sent |-> sent, called |-> called,
   effects |-> effects, hook |-> hook]

Apply(m) ==
  /\ options' = m.options
  /\ ws' = m.ws
  /\ state' = m.state
  /\ serverInit' = m.serverInit
  /\ connectionTimeout' = m.connectionTimeout
  /\ reconnectAttempts' = m.reconnectAttempts
  /\ vncState' = m.vncState
  /\ eventHandlers' = m.eventHandlers
  /\ sockets' = m.sockets
  /\ promises' = m.promises
  /\ reconnectTimers' = m.reconnectTimers
  /\ op' = m.op
  /\ thrown' = m.thrown
  /\ emitted' = m.emitted
  /\ sent' = m.sent
  /\ called' = m.called
  /\ effects' = m.effects
  /\ hook' = m.hook
  /\ UNCHANGED <<returned, hookVars>>

\* The snapshot at the start of an entry point: nothing thrown, emitted or sent yet.
Enter(m, o) ==
  [m EXCEPT !.op = o, !.thrown = Null, !.emitted = <<>>, !.sent = <<>>, !.called = <<>>,
            !.effects = <<>>]

Begin(o) == Enter(Cur, o)


\* ------------------------------------------------------- small helpers

\* A sequence given element by element, as an explicit tuple.
Tuple(f) == f \o <<>>

\* Index of the first element of s equal to x, 0 when there is none
\* (Array.prototype.indexOf, shifted to 1-based; 0 stands for -1).
IndexOf(s, x) ==
  IF \E i \in 1..Len(s) : s[i] = x
  THEN CHOOSE i \in 1..Len(s) : s[i] = x /\ \A j \in 1..(i - 1) : s[j] # x
  ELSE 0

\* s without its element at index i (Array.prototype.splice(i, 1)).
RemoveAt(s, i) == Tuple([j \in 1..(Len(s) - 1) |-> IF j < i THEN s[j] ELSE s[j + 1]])

\* { ...a, ...b } on records.
Merge(a, b) == [f \in DOMAIN a |-> IF f \in DOMAIN b THEN b[f] ELSE a[f]]

\* ------------------------------------------------------------ WebSocket

\* new WebSocket(url) followed by setupWebSocketHandlers(): a socket that is
\* connecting, with the four callbacks of the client attached.
setupWebSocketHandlers ==
  [readyState |-> "CONNECTING", onopen |-> TRUE, onmessage |-> TRUE,
   onclose |-> TRUE, onerror |-> TRUE, opened |-> FALSE, closeFired |-> FALSE]

\* WebSocket.close(): starts the closing handshake unless already closing or closed.
wsClose(s) ==
  IF s.readyState \in {"CONNECTING", "OPEN"} THEN [s EXCEPT !.readyState = "CLOSING"] ELSE s

\* ------------------------------------------------------------ event bus

EventTypes == {"connecting", "connected", "disconnected", "error", "framebuffer-update", "resize"}

\* The one-shot listeners connect() registers for the call that created socket k.
onConnectedOf(k) == [kind |-> "onConnected", call |-> k]
onErrorOf(k) == [kind |-> "onError", call |-> k]

setState(m, newState) == [m EXCEPT !.state = Merge(m.state, newState)]

on(m, event, handler) ==
  [m EXCEPT !.eventHandlers[event] = Append(m.eventHandlers[event], handler)]

off(m, event, handler) ==
  LET index == IndexOf(m.eventHandlers[event], handler)
  IN  IF index # 0
      THEN [m EXCEPT !.eventHandlers[event] = RemoveAt(m.eventHandlers[event], index)]
      ELSE m

\* resolve() / reject() of the promise of call k: a settled promise stays as it is.
Settle(m, k, outcome) ==
  IF m.promises[k] = "pending" THEN [m EXCEPT !.promises[k] = outcome] ELSE m

\* An entry of effects: what was done, the event type (of an emit or a call),
\* the handler called or the bytes sent.
Effect(kind, type, data) == [kind |-> kind, type |-> type, data |-> data]

\* A handler the application registers: call tells the application's handlers apart.
UserHandler(h) == [kind |-> "user", call |-> h]

\* The handleEvent closure of an effect run of the hook, as a registered handler.
handleEvent == UserHandler(0)

\* The body of handleEvent: setLoading and setState(client.getState()) on the
\* component's state.  setError and the canvas are not part of the model.
handleEventCall(m, type) ==
  CASE type = "connecting" -> [m EXCEPT !.hook.loading = TRUE]
    [] type \in {"connected", "disconnected", "error"} ->
         [m EXCEPT !.hook.loading = FALSE, !.hook.state = m.state]
    [] type = "resize" -> [m EXCEPT !.hook.state = m.state]
    [] OTHER -> m

\* The body of a registered handler, called for an event of the given type.
CallHandler(m, type, handler) ==
  LET removed == off(off(m, "connected", onConnectedOf(handler.call)),
                     "error", onErrorOf(handler.call))
  IN  IF handler.kind = "user"
      THEN LET noted == [m EXCEPT
                          !.called = Append(m.called, [type |-> type, handler |-> handler.call]),
                          !.effects = Append(m.effects, Effect("call", type, <<handler.call>>))]
           IN  IF handler = handleEvent THEN handleEventCall(noted, type) ELSE noted
      ELSE IF handler.kind = "onConnected"
      THEN Settle([removed EXCEPT !.reconnectAttempts = 0], handler.call, "resolved")
      ELSE Settle(removed, handler.call, "rejected")

\* handlers.forEach(handler => handler(event)) on the live array: index k of the
\* array as it is when the loop gets there; an index past its end is skipped.
RECURSIVE ForEachHandler(_, _, _, _)
ForEachHandler(m, type, k, len) ==
  IF k > len THEN m
  ELSE IF k > Len(m.eventHandlers[type]) THEN ForEachHandler(m, type, k + 1, len)
  ELSE ForEachHandler(CallHandler(m, type, m.eventHandlers[type][k]), type, k + 1, len)

emit(m, type, message) ==
  LET logged == [m EXCEPT !.emitted = Append(m.emitted, [type |-> type, message |-> message]),
                          !.effects = Append(m.effects, Effect("emit", type, <<>>))]
  IN  ForEachHandler(logged, type, 1, Len(m.eventHandlers[type]))

\* ------------------------------------------------------------- sending

sendMessage(m, data) ==
  IF m.ws # 0 /\ m.sockets[m.ws].readyState = "OPEN"
  THEN [m EXCEPT !.sent = Append(m.sent, [ws |-> m.ws, data |-> data]),
                 !.effects = Append(m.effects, Effect("send", "", data))]
  ELSE m

\* ----------------------------------------------------- connect / disconnect

\* new URL(url): a URL string is a sequence of characters.  Parsing fails when
\* there is no scheme (no ":" or nothing in front of it); protocol is the
\* scheme with its colon.
ParseURL(url) ==
  LET colon == IndexOf(url, ":")
  IN  IF colon <= 1 THEN [ok |-> FALSE, protocol |-> <<>>]
      ELSE [ok |-> TRUE, protocol |-> SubSeq(url, 1, colon)]

\* A validation that accepts every URL that parses, whatever its scheme (C7
\* must tell it from the one below).
isValidWebSocketUrl_AnyScheme(url) == ParseURL(url).ok

isValidWebSocketUrl(url) ==
  LET wsUrl == ParseURL(url)
  IN  wsUrl.ok /\ (wsUrl.protocol = <<"w", "s", ":">> \/ wsUrl.protocol = <<"w", "s", "s", ":">>)

cleanupExistingConnection(m) ==
  LET m1 == IF m.connectionTimeout # "null" THEN [m EXCEPT !.connectionTimeout = "null"] ELSE m
      m2 == IF m1.ws # 0
            THEN [m1 EXCEPT
                    !.sockets[m1.ws] =
                       wsClose([@ EXCEPT !.onopen = FALSE, !.onmessage = FALSE,
                                         !.onclose = FALSE, !.onerror = FALSE]),
                    !.ws = 0]
            ELSE m1
  IN  [m2 EXCEPT !.serverInit = <<>>, !.vncState = "version"]

\* setupConnectionTimeout(): arms the connect timer and keeps its handle.
setupConnectionTimeout(m) == [m EXCEPT !.connectionTimeout = "armed"]

\* A guard that lets connect() through on a Connected session (C6 must tell it
\* from the one below).
AlreadyActive_OnlyConnecting(m) == m.state.connecting

\* The guard of connect().
AlreadyActive(m) == m.state.connecting \/ m.state.connected

connect(m) ==
  IF AlreadyActive(m)
  THEN [m EXCEPT !.thrown = "Already connecting or connected"]
  ELSE
    LET m1 == cleanupExistingConnection(m)
        m2 == setState(m1, [connecting |-> TRUE, error |-> Null])
        m3 == emit([m2 EXCEPT !.vncState = "version"], "connecting", Null)
    IN  IF ~isValidWebSocketUrl(m3.options.url)
        THEN \* catch (error)
          LET c1 == setState(m3, [connecting |-> FALSE, error |-> "Invalid WebSocket URL"])
              c2 == emit(c1, "error", "Invalid WebSocket URL")
          IN  [c2 EXCEPT !.thrown = "Invalid WebSocket URL"]
        ELSE
          LET k == Len(m3.sockets) + 1
              m4 == [m3 EXCEPT !.sockets = Append(@, setupWebSocketHandlers), !.ws = k]
              m5 == setupConnectionTimeout(m4)
              m6 == [m5 EXCEPT !.promises = Append(@, "pending")]
          IN  on(on(m6, "connected", onConnectedOf(k)), "error", onErrorOf(k))

\* A reset that keeps state.error (C9 must tell it from the one below).
DisconnectedState_KeepsError ==
  [connected |-> FALSE, connecting |-> FALSE, serverName |-> Null, width |-> 0, height |-> 0]

\* The state disconnect() sets.
DisconnectedState ==
  [connected |-> FALSE, connecting |-> FALSE, error |-> Null, serverName |-> Null,
   width |-> 0, height |-> 0]

disconnect(m) ==
  LET m1 == [m EXCEPT !.reconnectAttempts = 0, !.vncState = "version"]
      m2 == IF m1.connectionTimeout # "null" THEN [m1 EXCEPT !.connectionTimeout = "null"] ELSE m1
      m3 == IF m2.ws # 0
            THEN [m2 EXCEPT
                    !.sockets[m2.ws] = wsClose([@ EXCEPT !.onclose = FALSE, !.onerror = FALSE]),
                    !.ws = 0]
            ELSE m2
      m4 == setState(m3, DisconnectedState)
  IN  emit(m4, "disconnected", Null)

resetReconnectionAttempts(m) == [m EXCEPT !.reconnectAttempts = 0]

\* ------------------------------------------------------------------ codec
\* src/utils/protocol.ts.  An ArrayBuffer is a sequence of bytes; offset o of
\* the source is index o + 1.

\* DataView.setUint8 / setUint16 / setUint32 (big endian): the value modulo 2^w.
U8(v) == <<v % 256>>
\* A 16-bit write with the low byte first (C23 must tell it from the one below).
U16BE_LowByteFirst(v) == <<v % 256, (v % 65536) \div 256>>

U16BE(v) == <<(v % 65536) \div 256, v % 256>>

U32BE(v) == <<(v \div 16777216) % 256, (v \div 65536) % 256, (v \div 256) % 256, v % 256>>

\* DataView.getUint8 / getUint16 / getUint32 (big endian) at offset o.
getUint8(data, o) == data[o + 1]
getUint16(data, o) == data[o + 1] * 256 + data[o + 2]
getUint32(data, o) ==
  data[o + 1] * 16777216 + data[o + 2] * 65536 + data[o + 3] * 256 + data[o + 4]

\* The printable ASCII characters, from code 32 to code 126 (the grave accent,
\* code 96, is spelled out: the character cannot be written in a string here).
Ascii ==
  <<" ", "!", "\"", "#", "$", "%", "&", "'", "(", ")", "*", "+", ",", "-", ".", "/",
    "0", "1", "2", "3", "4", "5", "6", "7", "8", "9", ":", ";", "<", "=", ">", "?",
    "@", "A", "B", "C", "D", "E", "F", "G", "H", "I", "J", "K", "L", "M", "N", "O",
    "P", "Q", "R", "S", "T", "U", "V", "W", "X", "Y", "Z", "[", "\\", "]", "^", "_",
    "<grave>", "a", "b", "c", "d", "e", "f", "g", "h", "i", "j", "k", "l", "m", "n", "o",
    "p", "q", "r", "s", "t", "u", "v", "w", "x", "y", "z", "{", "|", "}", "~">>

\* String.prototype.charCodeAt for one character.
CharCode(c) == IndexOf(Ascii, c) + 31

\* TextDecoder.decode on ASCII text; any other byte shows as "?".
RECURSIVE uint8ArrayToString(_)
uint8ArrayToString(arr) ==
  IF arr = <<>> THEN ""
  ELSE (IF arr[1] \in 32..126 THEN Ascii[arr[1] - 31] ELSE "?") \o uint8ArrayToString(Tail(arr))

\* TextEncoder.encode on a sequence of ASCII characters.
stringToUint8Array(str) == Tuple([i \in 1..Len(str) |-> CharCode(str[i])])

Bool8(b) == IF b THEN 1 ELSE 0

\* A parser that takes the name bytes present when the declared length is larger.
parseServerInit_NameClipped(data) ==
  IF Len(data) < 24 THEN [ok |-> FALSE]
  ELSE [ok |-> TRUE,
        width |-> getUint16(data, 0),
        height |-> getUint16(data, 2),
        pixelFormat |->
          [bitsPerPixel |-> getUint8(data, 4), depth |-> getUint8(data, 5),
           bigEndian |-> getUint8(data, 6) = 1, trueColor |-> getUint8(data, 7) = 1,
           redMax |-> getUint16(data, 8), greenMax |-> getUint16(data, 10),
           blueMax |-> getUint16(data, 12), redShift |-> getUint8(data, 14),
           greenShift |-> getUint8(data, 15), blueShift |-> getUint8(data, 16)],
        name |-> uint8ArrayToString(SubSeq(data, 25, Len(data)))]

\* parseServerInit: ok = FALSE stands for the RangeError of a read past the end.
parseServerInit(data) ==
  IF Len(data) < 24 THEN [ok |-> FALSE]
  ELSE
    LET nameLength == getUint32(data, 20)
    IN  IF 24 + nameLength > Len(data) THEN [ok |-> FALSE]
        ELSE [ok |-> TRUE,
              width |-> getUint16(data, 0),
              height |-> getUint16(data, 2),
              pixelFormat |->
                [bitsPerPixel |-> getUint8(data, 4), depth |-> getUint8(data, 5),
                 bigEndian |-> getUint8(data, 6) = 1, trueColor |-> getUint8(data, 7) = 1,
                 redMax |-> getUint16(data, 8), greenMax |-> getUint16(data, 10),
                 blueMax |-> getUint16(data, 12), redShift |-> getUint8(data, 14),
                 greenShift |-> getUint8(data, 15), blueShift |-> getUint8(data, 16)],
              name |-> uint8ArrayToString(SubSeq(data, 25, 24 + nameLength))]

createClientInit(shared) == U8(Bool8(shared))

createFramebufferUpdateRequest(incremental, x, y, width, height) ==
  U8(3) \o U8(Bool8(incremental)) \o U16BE(x) \o U16BE(y) \o U16BE(width) \o U16BE(height)

createKeyEvent(down, key) == U8(4) \o U8(Bool8(down)) \o U16BE(0) \o U32BE(key)

createPointerEvent(buttonMask, x, y) == U8(5) \o U8(buttonMask) \o U16BE(x) \o U16BE(y)

\* A 20-byte buffer: the bytes after offset 16 are never written and stay 0.
createSetPixelFormat(pixelFormat) ==
  U8(0) \o U8(0) \o U8(0) \o U8(0)
    \o U8(pixelFormat.bitsPerPixel) \o U8(pixelFormat.depth)
    \o U8(Bool8(pixelFormat.bigEndian)) \o U8(Bool8(pixelFormat.trueColor))
    \o U16BE(pixelFormat.redMax) \o U16BE(pixelFormat.greenMax) \o U16BE(pixelFormat.blueMax)
    \o U8(pixelFormat.redShift) \o U8(pixelFormat.greenShift) \o U8(pixelFormat.blueShift)
    \o <<0, 0, 0>>

getDefaultPixelFormat ==
  [bitsPerPixel |-> 32, depth |-> 24, bigEndian |-> FALSE, trueColor |-> TRUE,
   redMax |-> 255, greenMax |-> 255, blueMax |-> 255,
   redShift |-> 0, greenShift |-> 8, blueShift |-> 16]

\* ------------------------------------------------------------------ input

\* keyToVNCKey: the key name is a sequence of characters.
keyMap ==
  { << <<"B","a","c","k","s","p","a","c","e">>, 65288 >>,
    << <<"T","a","b">>, 65289 >>,
    << <<"E","n","t","e","r">>, 65293 >>,
    << <<"E","s","c","a","p","e">>, 65307 >>,
    << <<"D","e","l","e","t","e">>, 65535 >>,
    << <<"A","r","r","o","w","L","e","f","t">>, 65361 >>,
    << <<"A","r","r","o","w","U","p">>, 65362 >>,
    << <<"A","r","r","o","w","R","i","g","h","t">>, 65363 >>,
    << <<"A","r","r","o","w","D","o","w","n">>, 65364 >>,
    << <<" ">>, 32 >> }

keyToVNCKey(key) ==
  IF \E e \in keyMap : e[1] = key THEN (CHOOSE e \in keyMap : e[1] = key)[2]
  ELSE IF Len(key) = 1 THEN CharCode(key[1])
  ELSE 0

\* An early return that ignores options.viewOnly (C2 must tell it from the one
\* below).
InputDropped_IgnoresViewOnly(m) == ~m.state.connected

\* The early return of sendKeyEvent and of sendPointerEvent.
InputDropped(m) == ~m.state.connected \/ m.options.viewOnly

\* The early return of requestFramebufferUpdate.
RequestDropped(m) == ~m.state.connected

sendKeyEvent(m, event) ==
  IF InputDropped(m) THEN m
  ELSE sendMessage(m, createKeyEvent(event.down, keyToVNCKey(event.key)))

\* options.scale is the fraction scale.num / scale.den; Math.floor(v / scale).
FloorDivScale(v, scale) == (v * scale.den) \div scale.num

sendPointerEvent(m, event) ==
  IF InputDropped(m) THEN m
  ELSE sendMessage(m, createPointerEvent(event.buttons,
                                         FloorDivScale(event.x, m.options.scale),
                                         FloorDivScale(event.y, m.options.scale)))

requestFramebufferUpdate(m, incremental) ==
  IF RequestDropped(m) THEN m
  ELSE sendMessage(m, createFramebufferUpdateRequest(incremental, 0, 0,
                                                     m.state.width, m.state.height))

\* ------------------------------------------------- transport callbacks

handleConnectionOpen(m) == [m EXCEPT !.vncState = "version"]

\* A table that reports every close as lost unexpectedly, a normal one too (C20
\* must tell it from the one below).
CloseErrorMessage_AlwaysLost(code, reason) ==
  "Connection lost unexpectedly. Server may be unreachable or token expired."

\* The switch on event.code of handleConnectionClose; "" for a normal close.
CloseErrorMessage(code, reason) ==
  CASE code = 1000 -> ""
    [] code = 1006 -> "Connection lost unexpectedly. Server may be unreachable or token expired."
    [] code = 1002 -> "Protocol error. Server rejected the connection."
    [] code = 1003 -> "Server rejected connection due to invalid data."
    [] code = 1008 -> "Connection rejected by policy (CORS, authentication, etc.)"
    [] code = 1011 -> "Server encountered an unexpected error."
    [] OTHER -> "Connection closed with code " \o ToString(code) \o ": "
                  \o (IF reason # "" THEN reason ELSE "Unknown reason")

\* A list of retryable codes that also holds 1011 (C15 must tell it from the one
\* below).
retryableCodes_With1011 == {1006, 1011}

retryableCodes == {1006}

shouldAttemptReconnect(m, closeCode) ==
  closeCode \in retryableCodes /\ m.reconnectAttempts < maxReconnectAttempts

Min(a, b) == IF a < b THEN a ELSE b

\* A backoff that always waits the longest delay (C13 must tell it from the one
\* below).
ReconnectDelay_Longest(attempts) == 10000

\* The delay attemptReconnect passes to setTimeout.
ReconnectDelay(attempts) == Min(1000 * 2^(attempts - 1), 10000)

attemptReconnect(m) ==
  IF m.reconnectAttempts >= maxReconnectAttempts THEN m
  ELSE LET n == m.reconnectAttempts + 1
       IN  [m EXCEPT !.reconnectAttempts = n,
                     !.reconnectTimers = Append(@, ReconnectDelay(n))]

handleConnectionClose(m, code, reason) ==
  LET wasConnected == m.state.connected
      m1 == setState(m, [connected |-> FALSE, connecting |-> FALSE])
      errorMessage == CloseErrorMessage(code, reason)
      m2 == IF errorMessage # ""
            THEN emit(setState(m1, [error |-> errorMessage]), "error", errorMessage)
            ELSE m1
      m3 == emit(m2, "disconnected", Null)
  IN  IF wasConnected /\ shouldAttemptReconnect(m3, code)
      THEN attemptReconnect(m3)
      ELSE IF m3.reconnectAttempts > 0 /\ (code = 1003 \/ code = 1002)
      THEN [m3 EXCEPT !.reconnectAttempts = maxReconnectAttempts]
      ELSE m3

\* The message handleConnectionError builds from the event it is given.
ConnectionErrorMessage(event) ==
  IF event.isErrorEvent THEN "WebSocket error: " \o event.message
  ELSE IF event.type = "error"
  THEN "WebSocket connection failed. Check network connectivity and server availability."
  ELSE "WebSocket connection error"

handleConnectionError(m, event) ==
  LET message == ConnectionErrorMessage(event)
  IN  emit(setState(m, [connecting |-> FALSE, connected |-> FALSE, error |-> message]),
           "error", message)

\* The callback attemptReconnect gives to setTimeout.
ReconnectTimerCallback(m) ==
  IF ~m.state.connected /\ ~m.state.connecting
  THEN [connect(m) EXCEPT !.thrown = Null]   \* .catch(error => this.log(...))
  ELSE m

\* The callback setupConnectionTimeout gives to setTimeout.
ConnectionTimeoutCallback(m) ==
  IF m.state.connecting
  THEN LET m1 == disconnect(m)
       IN  emit(setState(m1, [error |-> "Connection timeout"]), "error", "Connection timeout")
  ELSE m

\* ------------------------------------------------ VNC DES authentication

sBoxes ==
  << <<14, 4, 13, 1, 2, 15, 11, 8, 3, 10, 6, 12, 5, 9, 0, 7,
       0, 15, 7, 4, 14, 2, 13, 1, 10, 6, 12, 11, 9, 5, 3, 8,
       4, 1, 14, 8, 13, 6, 2, 11, 15, 12, 9, 7, 3, 10, 5, 0,
       15, 12, 8, 2, 4, 9, 1, 7, 5, 11, 3, 14, 10, 0, 6, 13>>,
     <<15, 1, 8, 14, 6, 11, 3, 4, 9, 7, 2, 13, 12, 0, 5, 10,
       3, 13, 4, 7, 15, 2, 8, 14, 12, 0, 1, 10, 6, 9, 11, 5,
       0, 14, 7, 11, 10, 4, 13, 1, 5, 8, 12, 6, 9, 3, 2, 15,
       13, 8, 10, 1, 3, 15, 4, 2, 11, 6, 7, 12, 0, 5, 14, 9>>,
     <<10, 0, 9, 14, 6, 3, 15, 5, 1, 13, 12, 7, 11, 4, 2, 8,
       13, 7, 0, 9, 3, 4, 6, 10, 2, 8, 5, 14, 12, 11, 15, 1,
       13, 6, 4, 9, 8, 15, 3, 0, 11, 1, 2, 12, 5, 10, 14, 7,
       1, 10, 13, 0, 6, 9, 8, 7, 4, 15, 14, 3, 11, 5, 2, 12>>,
     <<7, 13, 14, 3, 0, 6, 9, 10, 1, 2, 8, 5, 11, 12, 4, 15,
       13, 8, 11, 5, 6, 15, 0, 3, 4, 7, 2, 12, 1, 10, 14, 9,
       10, 6, 9, 0, 12, 11, 7, 13, 15, 1, 3, 14, 5, 2, 8, 4,
       3, 15, 0, 6, 10, 1, 13, 8, 9, 4, 5, 11, 12, 7, 2, 14>>,
     <<2, 12, 4, 1, 7, 10, 11, 6, 8, 5, 3, 15, 13, 0, 14, 9,
       14, 11, 2, 12, 4, 7, 13, 1, 5, 0, 15, 10, 3, 9, 8, 6,
       4, 2, 1, 11, 10, 13, 7, 8, 15, 9, 12, 5, 6, 3, 0, 14,
       11, 8, 12, 7, 1, 14, 2, 13, 6, 15, 0, 9, 10, 4, 5, 3>>,
     <<12, 1, 10, 15, 9, 2, 6, 8, 0, 13, 3, 4, 14, 7, 5, 11,
       10, 15, 4, 2, 7, 12, 9, 5, 6, 1, 13, 14, 0, 11, 3, 8,
       9, 14, 15, 5, 2, 8, 12, 3, 7, 0, 4, 10, 1, 13, 11, 6,
       4, 3, 2, 12, 9, 5, 15, 10, 11, 14, 1, 7, 6, 0, 8, 13>>,
     <<4, 11, 2, 14, 15, 0, 8, 13, 3, 12, 9, 7, 5, 10, 6, 1,
       13, 0, 11, 7, 4, 9, 1, 10, 14, 3, 5, 12, 2, 15, 8, 6,
       1, 4, 11, 13, 12, 3, 7, 14, 10, 15, 6, 8, 0, 5, 9, 2,
       6, 11, 13, 8, 1, 4, 10, 7, 9, 5, 0, 15, 14, 2, 3, 12>>,
     <<13, 2, 8, 4, 6, 15, 11, 1, 10, 9, 3, 14, 5, 0, 12, 7,
       1, 15, 13, 8, 10, 3, 7, 4, 12, 5, 6, 11, 0, 14, 9, 2,
       7, 11, 4, 1, 9, 12, 14, 2, 0, 6, 10, 13, 15, 3, 5, 8,
       2, 1, 14, 7, 4, 10, 8, 13, 15, 12, 9, 0, 3, 5, 6, 11>> >>

ip ==
  <<58, 50, 42, 34, 26, 18, 10, 2, 60, 52, 44, 36, 28, 20, 12, 4,
    62, 54, 46, 38, 30, 22, 14, 6, 64, 56, 48, 40, 32, 24, 16, 8,
    57, 49, 41, 33, 25, 17, 9, 1, 59, 51, 43, 35, 27, 19, 11, 3,
    61, 53, 45, 37, 29, 21, 13, 5, 63, 55, 47, 39, 31, 23, 15, 7>>

fp ==
  <<40, 8, 48, 16, 56, 24, 64, 32, 39, 7, 47, 15, 55, 23, 63, 31,
    38, 6, 46, 14, 54, 22, 62, 30, 37, 5, 45, 13, 53, 21, 61, 29,
    36, 4, 44, 12, 52, 20, 60, 28, 35, 3, 43, 11, 51, 19, 59, 27,
    34, 2, 42, 10, 50, 18, 58, 26, 33, 1, 41, 9, 49, 17, 57, 25>>

expansion ==
  <<32, 1, 2, 3, 4, 5, 4, 5, 6, 7, 8, 9, 8, 9, 10, 11, 12, 13, 12, 13, 14, 15, 16, 17,
    16, 17, 18, 19, 20, 21, 20, 21, 22, 23, 24, 25, 24, 25, 26, 27, 28, 29, 28, 29, 30, 31, 32, 1>>

pbox ==
  <<16, 7, 20, 21, 29, 12, 28, 17, 1, 15, 23, 26, 5, 18, 31, 10,
    2, 8, 24, 14, 32, 27, 3, 9, 19, 13, 30, 6, 22, 11, 4, 25>>

pc1 ==
  <<57, 49, 41, 33, 25, 17, 9, 1, 58, 50, 42, 34, 26, 18,
    10, 2, 59, 51, 43, 35, 27, 19, 11, 3, 60, 52, 44, 36,
    63, 55, 47, 39, 31, 23, 15, 7, 62, 54, 46, 38, 30, 22,
    14, 6, 61, 53, 45, 37, 29, 21, 13, 5, 28, 20, 12, 4>>

pc2 ==
  <<14, 17, 11, 24, 1, 5, 3, 28, 15, 6, 21, 10, 23, 19, 12, 4, 26, 8, 16, 7, 27, 20, 13, 2,
    41, 52, 31, 37, 47, 55, 30, 40, 51, 45, 33, 48, 44, 49, 39, 56, 34, 53, 46, 42, 50, 36, 29, 32>>

shifts == <<1, 1, 2, 2, 2, 2, 2, 2, 1, 2, 2, 2, 2, 2, 2, 1>>

\* Bit 7 - i of a byte, for i = 0 (most significant) .. 7.
BitOf(byte, i) == (byte \div 2^(7 - i)) % 2

bytesToBits(bytes) ==
  Tuple([i \in 1..(8 * Len(bytes)) |-> BitOf(bytes[((i - 1) \div 8) + 1], (i - 1) % 8)])

bitsToBytes(bits) ==
  Tuple([j \in 1..((Len(bits) + 7) \div 8) |->
     LET b(i) == IF 8 * (j - 1) + i <= Len(bits) THEN bits[8 * (j - 1) + i] ELSE 0
     IN  b(1) * 128 + b(2) * 64 + b(3) * 32 + b(4) * 16 + b(5) * 8 + b(6) * 4 + b(7) * 2 + b(8)])

permute(input, table) == Tuple([i \in 1..Len(table) |-> input[table[i]]])

leftShift(input, n) == SubSeq(input, n + 1, Len(input)) \o SubSeq(input, 1, n)

Xor(a, b) == Tuple([i \in 1..Len(a) |-> (a[i] + b[i]) % 2])

\* The S-box substitution of one round: 48 bits in, 32 bits out.
sBoxOutput(xored) ==
  Tuple([i \in 1..32 |->
     LET s == (i - 1) \div 4
         row == xored[6 * s + 1] * 2 + xored[6 * s + 6]
         col == xored[6 * s + 2] * 8 + xored[6 * s + 3] * 4 + xored[6 * s + 4] * 2 + xored[6 * s + 5]
         sValue == sBoxes[s + 1][row * 16 + col + 1]
     IN  (sValue \div 2^(3 - ((i - 1) % 4))) % 2])

\* Rounds round..16 of the loop, from the halves and the key halves before round `round`.
RECURSIVE DesRounds(_, _, _, _, _)
DesRounds(round, left, right, c, d) ==
  IF round > 16 THEN right \o left
  ELSE LET c1 == leftShift(c, shifts[round])
           d1 == leftShift(d, shifts[round])
           roundKey == permute(c1 \o d1, pc2)
           fResult == permute(sBoxOutput(Xor(permute(right, expansion), roundKey)), pbox)
       IN  DesRounds(round + 1, right, Xor(left, fResult), c1, d1)

vncDesEncrypt(block, key) ==
  LET ipResult == permute(bytesToBits(block), ip)
      keyPermuted == permute(bytesToBits(key), pc1)
      preOutput == DesRounds(1, SubSeq(ipResult, 1, 32), SubSeq(ipResult, 33, 64),
                             SubSeq(keyPermuted, 1, 28), SubSeq(keyPermuted, 29, 56))
  IN  bitsToBytes(permute(preOutput, fp))

\* The byte as it is: a key whose bits keep their order.
ReverseBits_Unchanged(byte) == byte

\* The bits of a byte in reverse order.
ReverseBits(byte) ==
  BitOf(byte, 7) * 128 + BitOf(byte, 6) * 64 + BitOf(byte, 5) * 32 + BitOf(byte, 4) * 16
    + BitOf(byte, 3) * 8 + BitOf(byte, 2) * 4 + BitOf(byte, 1) * 2 + BitOf(byte, 0)

vncEncrypt(password, challenge) ==
  LET passwordBytes == stringToUint8Array(password)
      key == Tuple([i \in 1..8 |-> ReverseBits(IF i <= Len(passwordBytes) THEN passwordBytes[i] ELSE 0)])
  IN  vncDesEncrypt(SubSeq(challenge, 1, 8), key) \o vncDesEncrypt(SubSeq(challenge, 9, 16), key)

\* --------------------------------------------------- protocol handshake
\* A handler returns the snapshot it leaves and the message of the Error it
\* threw (Null when it returned normally).

Ok(m) == [m |-> m, err |-> Null]
Throw(m, message) == [m |-> m, err |-> message]

\* 'RFB 003.008\n'
ClientVersion == <<82, 70, 66, 32, 48, 48, 51, 46, 48, 48, 56, 10>>

\* sendRawMessage has the guard of sendMessage and sends the encoded string.
sendRawMessage(m, data) == sendMessage(m, data)

handleProtocolVersion(m) == sendRawMessage(m, ClientVersion)

handleVersionResponse(m, data) ==
  IF Len(data) >= 12
  THEN Ok([handleProtocolVersion(m) EXCEPT !.vncState = "security"])
  ELSE Ok(m)

sendClientInit(m) == sendMessage(m, createClientInit(TRUE))

\* The security types the loop of handleSecurityResponse collects.
SecTypes(data) ==
  LET numSecTypes == getUint8(data, 0)
  IN  { getUint8(data, 1 + i) : i \in { j \in 0..(numSecTypes - 1) : Len(data) > 1 + j } }

\* A choice that takes None whenever it is offered (C29 must tell it from the
\* one below).
ChosenSecType_PrefersNone(m, data) ==
  IF 1 \in SecTypes(data) THEN 1
  ELSE IF m.options.password # <<>> /\ 2 \in SecTypes(data) THEN 2
  ELSE 0

\* 0 when no offered type is supported.
ChosenSecType(m, data) ==
  IF m.options.password # <<>> /\ 2 \in SecTypes(data) THEN 2
  ELSE IF 1 \in SecTypes(data) THEN 1
  ELSE 0

handleSecurityResponse(m, data) ==
  IF Len(data) < 2 THEN Ok(m)
  ELSE IF getUint8(data, 0) = 0
  THEN IF Len(data) < 5 THEN Throw(m, "Offset is outside the bounds of the DataView")
       ELSE LET reasonLength == getUint32(data, 1)
            IN  IF Len(data) >= 5 + reasonLength
                THEN Throw(m, "Security handshake failed: "
                                \o uint8ArrayToString(SubSeq(data, 6, 5 + reasonLength)))
                ELSE Throw(m, "Security handshake failed: Unknown reason")
  ELSE IF ChosenSecType(m, data) = 0 THEN Throw(m, "No supported security type available")
  ELSE IF ChosenSecType(m, data) = 2
  THEN Ok([sendMessage(m, U8(2)) EXCEPT !.vncState = "auth"])
  ELSE Ok(sendClientInit([sendMessage(m, U8(1)) EXCEPT !.vncState = "init"]))

\* reason.replace(/\0+$/, ''): the bytes without their trailing zero bytes.
RECURSIVE StripTrailingNul(_)
StripTrailingNul(bytes) ==
  IF bytes # <<>> /\ bytes[Len(bytes)] = 0
  THEN StripTrailingNul(SubSeq(bytes, 1, Len(bytes) - 1))
  ELSE bytes

\* The reason text of a failed authentication result of at least 8 bytes.
AuthFailureReason(data) ==
  LET reasonLength == getUint32(data, 4)
  IN  IF Len(data) >= 8 + reasonLength
      THEN uint8ArrayToString(StripTrailingNul(SubSeq(data, 9, 8 + reasonLength)))
      ELSE "Authentication failed"

handleAuthResponse(m, data) ==
  IF Len(data) = 16
  THEN IF m.options.password = <<>>
       THEN Throw(m, "VNC authentication required but no password provided")
       ELSE Ok(sendMessage(m, vncEncrypt(m.options.password, data)))
  ELSE IF Len(data) = 4
  THEN IF getUint32(data, 0) = 0
       THEN Ok(sendClientInit([m EXCEPT !.vncState = "init"]))
       ELSE Throw(m, "VNC authentication failed")
  ELSE IF Len(data) >= 8
  THEN IF getUint32(data, 0) = 0
       THEN Ok(sendClientInit([m EXCEPT !.vncState = "init"]))
       ELSE Throw(IF m.ws # 0 THEN [m EXCEPT !.sockets[m.ws] = wsClose(@)] ELSE m,
                  "VNC authentication failed: " \o AuthFailureReason(data))
  ELSE Throw(m, "Unexpected authentication response length: " \o ToString(Len(data)))

\* A transition to Connected that leaves connecting as it was (C4 must tell it
\* from the one below).
ConnectedState_KeepsConnecting(parsed) ==
  [connected |-> TRUE, serverName |-> parsed.name,
   width |-> parsed.width, height |-> parsed.height]

\* The state handleServerInit sets from the parsed message.
ConnectedState(parsed) ==
  [connected |-> TRUE, connecting |-> FALSE, serverName |-> parsed.name,
   width |-> parsed.width, height |-> parsed.height]

\* An end of handleServerInit that requests the first update before it emits
\* Connected (C31 must tell it from the one below).
AnnounceConnected_RequestFirst(m) ==
  emit(requestFramebufferUpdate([m EXCEPT !.vncState = "connected"], FALSE), "connected", Null)

\* The end of handleServerInit: the phase, the Connected event, the first request.
AnnounceConnected(m) ==
  requestFramebufferUpdate(emit([m EXCEPT !.vncState = "connected"], "connected", Null), FALSE)

handleServerInit(m, data) ==
  IF Len(data) < 24 THEN Ok(m)
  ELSE
    LET parsed == parseServerInit(data)
    IN  IF ~parsed.ok
        THEN Throw(m, "Invalid typed array length: " \o ToString(getUint32(data, 20)))
        ELSE
          LET m1 == [m EXCEPT !.serverInit =
                       <<[width |-> parsed.width, height |-> parsed.height,
                          pixelFormat |-> parsed.pixelFormat, name |-> parsed.name]>>]
              m2 == setState(m1, ConnectedState(parsed))
              m3 == IF m2.connectionTimeout # "null"
                    THEN [m2 EXCEPT !.connectionTimeout = "null"] ELSE m2
          IN  Ok(AnnounceConnected(m3))

handleProtocolMessage(m, data) == Ok(m)

\* The switch of handleServerMessage.
DispatchServerMessage(m, data) ==
  CASE m.vncState = "version" -> handleVersionResponse(m, data)
    [] m.vncState = "security" -> handleSecurityResponse(m, data)
    [] m.vncState = "auth" -> handleAuthResponse(m, data)
    [] m.vncState = "init" -> handleServerInit(m, data)
    [] m.vncState = "connected" -> handleProtocolMessage(m, data)

handleServerMessage(m, data) ==
  LET r == DispatchServerMessage(m, data)
  IN  IF r.err # Null THEN emit(r.m, "error", "Protocol error: " \o r.err) ELSE r.m

\* ------------------------------------------------------------- inputs

\* The constructor's defaults: password '' and scale 1.0 when not given (a
\* scale of 0 is falsy and also gives 1.0).
Constructor(o) ==
  [url |-> o.url, password |-> o.password, viewOnly |-> o.viewOnly,
   scale |-> IF o.scale.num = 0 THEN [num |-> 1, den |-> 1] ELSE o.scale]

WsUrl == <<"w", "s", ":", "/", "/", "h">>
WssUrl == <<"w", "s", "s", ":", "/", "/", "h">>
HttpUrl == <<"h", "t", "t", "p", ":", "/", "/", "h">>
NoSchemeUrl == <<"h">>

\* The option sets a client is constructed with.
OptionSets ==
  { [url |-> WssUrl, password |-> <<"p", "w">>, viewOnly |-> FALSE, scale |-> [num |-> 1, den |-> 2]],
    [url |-> WsUrl, password |-> <<>>, viewOnly |-> TRUE, scale |-> [num |-> 0, den |-> 1]],
    [url |-> HttpUrl, password |-> <<>>, viewOnly |-> FALSE, scale |-> [num |-> 1, den |-> 1]],
    [url |-> NoSchemeUrl, password |-> <<>>, viewOnly |-> FALSE, scale |-> [num |-> 1, den |-> 1]] }

\* A ServerInit record: width, height, a 16-byte pixel format, the name length and the name bytes.
ServerInitBytes(width, height, nameLength, nameBytes) ==
  U16BE(width) \o U16BE(height) \o <<32, 24, 0, 1>> \o U16BE(255) \o U16BE(255) \o U16BE(255)
    \o <<0, 8, 16, 0, 0, 0>> \o U32BE(nameLength) \o nameBytes

\* The frames a server may send, in any phase.
ServerFrames ==
  { <<82, 70, 66, 32, 48, 48, 51, 46, 48, 48, 56, 10>>,   \* "RFB 003.008\n"
    <<82, 70, 66>>,                                        \* a fragment of it
    <<1, 1>>,                                              \* security types: None
    <<2, 1, 2>>,                                           \* security types: None, VNC
    <<1, 19>>,                                             \* security types: one the client lacks
    <<0, 0, 0, 0, 2, 110, 111>>,                           \* security failure, reason "no"
    <<0, 1, 2, 3, 4, 5, 6, 7, 8, 9, 10, 11, 12, 13, 14, 15>>, \* authentication challenge
    <<0, 0, 0, 0>>,                                        \* authentication result: ok
    <<0, 0, 0, 1>>,                                        \* authentication result: failed
    <<0, 0, 0, 1, 0, 0, 0, 2, 110, 111>>,                  \* failed, with reason "no"
    ServerInitBytes(800, 600, 2, <<86, 77>>),              \* ServerInit 800x600 "VM"
    ServerInitBytes(0, 0, 0, <<>>),                        \* ServerInit of an empty screen
    ServerInitBytes(800, 600, 9, <<86, 77>>) }             \* ServerInit whose name is cut short

KeyEvents ==
  { [key |-> <<"a">>, down |-> TRUE],
    [key |-> <<"E", "n", "t", "e", "r">>, down |-> FALSE],
    [key |-> <<"F", "1">>, down |-> TRUE] }

PointerEvents ==
  { [x |-> 100, y |-> 51, buttons |-> 1],
    [x |-> -5, y |-> 10000, buttons |-> 0] }

\* code and reason of a CloseEvent.
CloseEvents ==
  { [code |-> 1000, reason |-> ""], [code |-> 1006, reason |-> ""],
    [code |-> 1002, reason |-> ""], [code |-> 1003, reason |-> ""],
    [code |-> 1008, reason |-> ""], [code |-> 1011, reason |-> ""],
    [code |-> 1001, reason |-> "Going away"], [code |-> 4000, reason |-> ""] }

\* The events a WebSocket gives to onerror.
ErrorEvents ==
  { [isErrorEvent |-> FALSE, type |-> "error", message |-> ""],
    [isErrorEvent |-> TRUE, type |-> "error", message |-> "ECONNRESET"] }

\* ---------------------------------------------------------------- Init

InitialState ==
  [connected |-> FALSE, connecting |-> FALSE, error |-> Null, serverName |-> Null,
   width |-> 0, height |-> 0]

\* The initial values of useState in useVNC.
InitialHook == [state |-> InitialState, loading |-> FALSE]

\* No component has called useVNC: the refs and the state hold their initial values.
NotRendered ==
  /\ hook = InitialHook
  /\ clients = <<>>
  /\ clientRef = 0
  /\ isMountedRef = TRUE
  /\ effectActive = FALSE
  /\ cleanupTimers = <<>>

Init ==
  /\ options \in { Constructor(o) : o \in OptionSets }
  /\ ws = 0
  /\ state = InitialState
  /\ serverInit = <<>>
  /\ connectionTimeout = "null"
  /\ reconnectAttempts = 0
  /\ vncState = "version"
  /\ eventHandlers = [t \in EventTypes |-> <<>>]
  /\ sockets = <<>>
  /\ promises = <<>>
  /\ reconnectTimers = <<>>
  /\ op = [name |-> "constructor", arg |-> Null]
  /\ thrown = Null
  /\ emitted = <<>>
  /\ sent = <<>>
  /\ called = <<>>
  /\ effects = <<>>
  /\ returned = Null
  /\ hookOptions = Null
  /\ NotRendered

\* -------------------------------------------------------------- actions

Op(name, arg) == [name |-> name, arg |-> arg]

\* connect() creates a socket unless it throws first.
CanConnect(m) == AlreadyActive(m) \/ ~isValidWebSocketUrl(m.options.url) \/ Len(m.sockets) < MaxSockets

Connect ==
  /\ CanConnect(Cur)
  /\ Apply(connect(Begin(Op("connect", Null))))

Disconnect == Apply(disconnect(Begin(Op("disconnect", Null))))

ResetReconnectionAttempts ==
  Apply(resetReconnectionAttempts(Begin(Op("resetReconnectionAttempts", Null))))

SendKeyEvent ==
  \E event \in KeyEvents : Apply(sendKeyEvent(Begin(Op("sendKeyEvent", event)), event))

SendPointerEvent ==
  \E event \in PointerEvents : Apply(sendPointerEvent(Begin(Op("sendPointerEvent", event)), event))

RequestFramebufferUpdate ==
  \E incremental \in BOOLEAN :
    Apply(requestFramebufferUpdate(Begin(Op("requestFramebufferUpdate", incremental)), incremental))

\* The open event of socket i: the connection is established.
WsOpen ==
  \E i \in 1..Len(sockets) :
    /\ sockets[i].readyState = "CONNECTING"
    /\ LET m == [Begin(Op("onopen", i)) EXCEPT !.sockets[i].readyState = "OPEN",
                                                 !.sockets[i].opened = TRUE]
       IN  Apply(IF sockets[i].onopen THEN handleConnectionOpen(m) ELSE m)

\* A message event of socket i, given to the callback it still has.
WsMessageOf(frames) ==
  \E i \in 1..Len(sockets), data \in frames :
    /\ sockets[i].readyState \in {"OPEN", "CLOSING"}
    /\ sockets[i].opened
    /\ sockets[i].onmessage
    /\ Apply(handleServerMessage(Begin(Op("onmessage", i)), data))

WsMessage == WsMessageOf(ServerFrames)

\* The error event of socket i: the connection has failed, its close event
\* follows.  Without a callback no code of the client runs and the event given
\* does not matter.
WsError ==
  \E i \in 1..Len(sockets) :
    /\ sockets[i].readyState \in {"CONNECTING", "OPEN", "CLOSING"}
    /\ IF sockets[i].onerror
       THEN \E event \in ErrorEvents :
              Apply(handleConnectionError(
                      [Begin(Op("onerror", <<i, event>>)) EXCEPT !.sockets[i].readyState = "CLOSED"],
                      event))
       ELSE Apply([Begin(Op("onerror", <<i>>)) EXCEPT !.sockets[i].readyState = "CLOSED"])

\* The close event of socket i; after an error event, and on a socket that never
\* opened, its code is 1006.
WsCloseOf(events) ==
  \E i \in 1..Len(sockets) :
    /\ ~sockets[i].closeFired
    /\ sockets[i].readyState \in {"OPEN", "CLOSING", "CLOSED"}
    /\ IF sockets[i].onclose
       THEN \E event \in events :
              /\ (sockets[i].readyState = "CLOSED" \/ ~sockets[i].opened) => event.code = 1006
              /\ Apply(handleConnectionClose(
                         [Begin(Op("onclose", <<i, event>>)) EXCEPT
                            !.sockets[i].readyState = "CLOSED", !.sockets[i].closeFired = TRUE],
                         event.code, event.reason))
       ELSE Apply([Begin(Op("onclose", <<i>>)) EXCEPT
                     !.sockets[i].readyState = "CLOSED", !.sockets[i].closeFired = TRUE])

WsClose == WsCloseOf(CloseEvents)

\* The connect timer expires: its handle, if kept, is stale from now on.
ConnectionTimeoutFires ==
  /\ connectionTimeout = "armed"
  /\ Apply(ConnectionTimeoutCallback(
             [Begin(Op("connectionTimeout", Null)) EXCEPT !.connectionTimeout = "fired"]))

\* A reconnect timer expires.
ReconnectTimerFires ==
  \E t \in 1..Len(reconnectTimers) :
    LET m == [Begin(Op("reconnectTimer", reconnectTimers[t])) EXCEPT
                !.reconnectTimers = RemoveAt(@, t)]
    IN  /\ AlreadyActive(m) \/ CanConnect(m)
        /\ Apply(ReconnectTimerCallback(m))

Next ==
  \/ Connect
  \/ Disconnect
  \/ ResetReconnectionAttempts
  \/ SendKeyEvent
  \/ SendPointerEvent
  \/ RequestFramebufferUpdate
  \/ WsOpen
  \/ WsMessage
  \/ WsError
  \/ WsClose
  \/ ConnectionTimeoutFires
  \/ ReconnectTimerFires

Spec == Init /\ [][Next]_vars

\* ------------------------------------------------------ the event bus

\* Number of registrations the application may hold at a time.
MaxRegistrations == 2

\* The events the application listens to and the handlers it has.
ListenedEvents == {"connected", "error"}
Listeners == {1, 2}

Registrations(m) ==
  Cardinality(UNION { { <<e, k>> : k \in { j \in 1..Len(m.eventHandlers[e]) :
                                              m.eventHandlers[e][j].kind = "user" } } :
                      e \in EventTypes })

\* client.on(event, handler)
On ==
  \E event \in ListenedEvents, h \in Listeners :
    /\ Registrations(Cur) < MaxRegistrations
    /\ Apply(on(Begin(Op("on", <<event, h>>)), event, UserHandler(h)))

\* client.off(event, handler)
Off ==
  \E event \in ListenedEvents, h \in Listeners :
    Apply(off(Begin(Op("off", <<event, h>>)), event, UserHandler(h)))

\* A handshake with security type None, and the closes that end a session.
HandshakeFrames ==
  { <<82, 70, 66, 32, 48, 48, 51, 46, 48, 48, 56, 10>>, <<1, 1>>,
    ServerInitBytes(800, 600, 2, <<86, 77>>) }

SessionCloseEvents == { [code |-> 1000, reason |-> ""], [code |-> 1006, reason |-> ""] }

BusInit == Init /\ options.url = WsUrl

BusNext ==
  \/ On
  \/ Off
  \/ Connect
  \/ Disconnect
  \/ WsOpen
  \/ WsMessageOf(HandshakeFrames)
  \/ WsError
  \/ WsCloseOf(SessionCloseEvents)
  \/ ConnectionTimeoutFires
  \/ ReconnectTimerFires

BusSpec == BusInit /\ [][BusNext]_vars

\* ---------------------------------------------------------- useVNC

\* Number of times the initialise-client effect may run in one behaviour.
MaxClients == 2

\* The options of the component: those of the client, autoConnect and
\* autoDisconnect (TRUE also stands for an option the component leaves out).
UseVNCOptionSets ==
  [url : {WsUrl}, password : {<<>>}, viewOnly : {FALSE}, scale : {[num |-> 1, den |-> 1]},
   autoConnect : BOOLEAN, autoDisconnect : BOOLEAN]

\* new VNCClient(o)
NewClient(o) ==
  [options |-> Constructor(o), ws |-> 0, state |-> InitialState, serverInit |-> <<>>,
   connectionTimeout |-> "null", reconnectAttempts |-> 0, vncState |-> "version",
   eventHandlers |-> [t \in EventTypes |-> <<>>], sockets |-> <<>>, promises |-> <<>>,
   reconnectTimers |-> <<>>, op |-> [name |-> "constructor", arg |-> Null], thrown |-> Null,
   emitted |-> <<>>, sent |-> <<>>, called |-> <<>>, effects |-> <<>>, hook |-> InitialHook]

\* Client c as its code finds it: its handleEvent closure sets the state of the component.
Client(c) == [clients[c] EXCEPT !.hook = hook]

\* A client as kept in clients: the state of the component is kept in hook only.
Stored(m) == [m EXCEPT !.hook = InitialHook]

\* A step of the hook: the clients and refs it leaves, the client of the
\* class-level variables being none of its business.
HookStep(o, newClients, newRef, mounted, active, timers, rendered) ==
  /\ op' = o
  /\ hook' = rendered
  /\ clients' = newClients
  /\ clientRef' = newRef
  /\ isMountedRef' = mounted
  /\ effectActive' = active
  /\ cleanupTimers' = timers
  /\ UNCHANGED <<clientVars, envVars, thrown, emitted, sent, called, effects, returned, hookOptions>>

\* A call on client c of the hook.
OnClient(o, c, m) ==
  HookStep(o, [clients EXCEPT ![c] = Stored(m)], clientRef, isMountedRef, effectActive,
           cleanupTimers, m.hook)

\* The initialise-client effect runs (mount, or a change of url, autoConnect
\* or autoDisconnect after the cleanup of the previous run).
EffectRun ==
  /\ ~effectActive
  /\ Len(clients) < MaxClients
  /\ LET client == [NewClient(hookOptions) EXCEPT !.hook = hook]
         listening ==
           on(on(on(on(on(on(client, "connecting", handleEvent), "connected", handleEvent),
                       "disconnected", handleEvent), "error", handleEvent),
                 "framebuffer-update", handleEvent), "resize", handleEvent)
         started == IF hookOptions.autoConnect
                    THEN connect(Enter(listening, Op("connect", Null)))
                    ELSE listening
     IN  HookStep(Op("effect", Len(clients) + 1), Append(clients, Stored(started)),
                  Len(clients) + 1, TRUE, TRUE, cleanupTimers, started.hook)

\* The cleanup of the effect run that created the current client: the
\* disconnection of that client is deferred by 100 ms.
EffectCleanup ==
  /\ effectActive
  /\ HookStep(Op("cleanup", clientRef), clients, clientRef, FALSE, FALSE,
              Append(cleanupTimers, clientRef), hook)

\* The oldest deferred disconnection is due.
CleanupTimerFires ==
  /\ cleanupTimers # <<>>
  /\ LET c == Head(cleanupTimers)
         m == disconnect(Enter(Client(c), Op("disconnect", Null)))
     IN  IF ~isMountedRef /\ hookOptions.autoDisconnect # FALSE
         THEN HookStep(Op("cleanupTimer", c), [clients EXCEPT ![c] = Stored(m)],
                       clientRef, isMountedRef, effectActive, Tail(cleanupTimers), m.hook)
         ELSE HookStep(Op("cleanupTimer", c), clients,
                       clientRef, isMountedRef, effectActive, Tail(cleanupTimers), hook)

\* The transport events of the sockets of the hook's clients.
ClientWsOpen ==
  \E c \in 1..Len(clients) : \E i \in 1..Len(clients[c].sockets) :
    /\ clients[c].sockets[i].readyState = "CONNECTING"
    /\ LET m == [Enter(Client(c), Op("onopen", i)) EXCEPT !.sockets[i].readyState = "OPEN",
                                                            !.sockets[i].opened = TRUE]
       IN  OnClient(Op("onopen", <<c, i>>), c,
                    IF clients[c].sockets[i].onopen THEN handleConnectionOpen(m) ELSE m)

ClientWsMessage ==
  \E c \in 1..Len(clients) : \E i \in 1..Len(clients[c].sockets) : \E data \in HandshakeFrames :
    /\ clients[c].sockets[i].readyState \in {"OPEN", "CLOSING"}
    /\ clients[c].sockets[i].opened
    /\ clients[c].sockets[i].onmessage
    /\ OnClient(Op("onmessage", <<c, i>>), c,
                handleServerMessage(Enter(Client(c), Op("onmessage", i)), data))

\* The server ends the session of a client with a normal close.
ClientWsClose ==
  \E c \in 1..Len(clients) : \E i \in 1..Len(clients[c].sockets) :
    /\ ~clients[c].sockets[i].closeFired
    /\ clients[c].sockets[i].readyState \in {"OPEN", "CLOSING"}
    /\ clients[c].sockets[i].opened
    /\ LET m == [Enter(Client(c), Op("onclose", <<i, [code |-> 1000, reason |-> ""]>>)) EXCEPT
                  !.sockets[i].readyState = "CLOSED", !.sockets[i].closeFired = TRUE]
       IN  OnClient(Op("onclose", <<c, i>>), c,
                    IF clients[c].sockets[i].onclose THEN handleConnectionClose(m, 1000, "") ELSE m)

HookInit ==
  /\ hookOptions \in UseVNCOptionSets
  /\ options = Constructor(hookOptions)
  /\ ws = 0
  /\ state = InitialState
  /\ serverInit = <<>>
  /\ connectionTimeout = "null"
  /\ reconnectAttempts = 0
  /\ vncState = "version"
  /\ eventHandlers = [t \in EventTypes |-> <<>>]
  /\ sockets = <<>>
  /\ promises = <<>>
  /\ reconnectTimers = <<>>
  /\ op = [name |-> "render", arg |-> Null]
  /\ thrown = Null
  /\ emitted = <<>>
  /\ sent = <<>>
  /\ called = <<>>
  /\ effects = <<>>
  /\ returned = Null
  /\ NotRendered

HookNext ==
  \/ EffectRun
  \/ EffectCleanup
  \/ CleanupTimerFires
  \/ ClientWsOpen
  \/ ClientWsMessage
  \/ ClientWsClose

HookSpec == HookInit /\ [][HookNext]_vars

\* ------------------------------------------------- the message builders

\* Values given for the 16-bit fields: inside the range, at its ends and outside it.
Coordinates == {-1, 0, 100, 200, 255, 256, 800, 65535, 65536}

\* Keysyms: characters, a function key (0xFF0D), the largest 31-bit value.
Keysyms == {0, 65, 255, 256, 65293, 16777216, 2147483647, -1}

ButtonMasks == {0, 1, 5, 255, 256}

PixelFormats ==
  {getDefaultPixelFormat}
    \cup [bitsPerPixel : {8, 300}, depth : {8}, bigEndian : BOOLEAN, trueColor : BOOLEAN,
          redMax : {7, 65535}, greenMax : {7, 256}, blueMax : {3, 65536},
          redShift : {0, 5}, greenShift : {2}, blueShift : {0, 257}]

\* A call of a builder changes nothing but what it returns.
Returns(o, buffer) ==
  /\ op' = o
  /\ returned' = buffer
  /\ UNCHANGED <<clientVars, envVars, thrown, emitted, sent, called, effects, hookVars, hook>>

CreateClientInit ==
  \E shared \in BOOLEAN : Returns(Op("createClientInit", <<shared>>), createClientInit(shared))

CreateSetPixelFormat ==
  \E pixelFormat \in PixelFormats :
    Returns(Op("createSetPixelFormat", <<pixelFormat>>), createSetPixelFormat(pixelFormat))

CreateFramebufferUpdateRequest ==
  \E incremental \in BOOLEAN, x \in {0, 256}, y \in {0, 65535},
     width \in Coordinates, height \in Coordinates :
    Returns(Op("createFramebufferUpdateRequest", <<incremental, x, y, width, height>>),
            createFramebufferUpdateRequest(incremental, x, y, width, height))

CreateKeyEvent ==
  \E down \in BOOLEAN, key \in Keysyms :
    Returns(Op("createKeyEvent", <<down, key>>), createKeyEvent(down, key))

CreatePointerEvent ==
  \E buttonMask \in ButtonMasks, x \in Coordinates, y \in Coordinates :
    Returns(Op("createPointerEvent", <<buttonMask, x, y>>), createPointerEvent(buttonMask, x, y))

CodecNext ==
  \/ CreateClientInit
  \/ CreateSetPixelFormat
  \/ CreateFramebufferUpdateRequest
  \/ CreateKeyEvent
  \/ CreatePointerEvent

CodecSpec == Init /\ [][CodecNext]_vars

\* ---------------------------------------------------------------- the cipher
\* vncEncrypt and vncDesEncrypt as pure functions of their arguments.

\* Passwords of one to eleven characters; three agree on their first eight.
AuthPasswords ==
  { <<"a">>,
    <<"p", "w">>,
    <<"s", "e", "c", "r", "e", "t">>,
    <<"p", "a", "s", "s", "w", "o", "r", "d">>,
    <<"p", "a", "s", "s", "w", "o", "r", "d", "1">>,
    <<"p", "a", "s", "s", "w", "o", "r", "d", "X", "Y", "Z">> }

\* The two halves of a 16-byte challenge.
ChallengeHalves ==
  { <<0, 0, 0, 0, 0, 0, 0, 0>>,
    <<255, 255, 255, 255, 255, 255, 255, 255>>,
    <<1, 35, 69, 103, 137, 171, 205, 239>>,
    <<78, 111, 119, 32, 105, 115, 32, 116>>,
    <<200, 7, 91, 164, 18, 255, 0, 129>> }

Challenges == { first \o second : first \in ChallengeHalves, second \in ChallengeHalves }

\* Pairs <<block, key>> with published DES ciphertexts.
DesTestVectors ==
  { <<<<1, 35, 69, 103, 137, 171, 205, 239>>, <<19, 52, 87, 121, 155, 188, 223, 241>>>>,
    <<<<135, 135, 135, 135, 135, 135, 135, 135>>, <<14, 50, 146, 50, 234, 109, 13, 115>>>>,
    <<<<16, 0, 0, 0, 0, 0, 0, 1>>, <<48, 0, 0, 0, 0, 0, 0, 0>>>>,
    <<<<78, 111, 119, 32, 105, 115, 32, 116>>, <<1, 35, 69, 103, 137, 171, 205, 239>>>>,
    <<<<1, 35, 69, 103, 137, 171, 205, 239>>, <<254, 220, 186, 152, 118, 84, 50, 16>>>>,
    <<<<255, 255, 255, 255, 255, 255, 255, 255>>, <<255, 255, 255, 255, 255, 255, 255, 255>>>> }

VncEncrypt ==
  \E password \in AuthPasswords, challenge \in Challenges :
    Returns(Op("vncEncrypt", <<password, challenge>>), vncEncrypt(password, challenge))

VncDesEncrypt ==
  \E v \in DesTestVectors :
    Returns(Op("vncDesEncrypt", v), vncDesEncrypt(v[1], v[2]))

CipherInit == Init /\ options.url = WsUrl

CipherNext ==
  \/ VncEncrypt
  \/ VncDesEncrypt

CipherSpec == CipherInit /\ [][CipherNext]_vars

\* ---------------------------------------------------------------- claims

InputOps == {"sendKeyEvent", "sendPointerEvent", "requestFramebufferUpdate"}

\* C1: sendKeyEvent, sendPointerEvent and requestFramebufferUpdate, called in a
\* state where the session is not Connected (connected = false, or the phase is
\* not 'connected'), write nothing to the transport, emit nothing, throw
\* nothing and leave every field of the client, every socket, promise and
\* timer as it was.
C1_InputDroppedUnlessConnected ==
  [][(op'.name \in InputOps /\ (~state.connected \/ vncState # "connected"))
       => (sent' = <<>> /\ emitted' = <<>> /\ thrown' = Null /\ UNCHANGED <<clientVars, envVars>>)]_vars

\* C1 witness: a key event was dropped during the handshake, on a client that is
\* not view-only and whose socket is open (so a write would have gone out).
C1_Witness ==
  /\ op.name = "sendKeyEvent"
  /\ ~state.connected /\ state.connecting /\ ~options.viewOnly
  /\ ws # 0 /\ sockets[ws].readyState = "OPEN"

\* C2: with viewOnly = true, sendKeyEvent and sendPointerEvent write nothing to
\* the transport in any state.
C2_ViewOnlySendsNothing ==
  (options.viewOnly /\ op.name \in {"sendKeyEvent", "sendPointerEvent"}) => sent = <<>>

\* C2 witness: a pointer event on a view-only client that is Connected over an
\* open socket.
C2_Witness ==
  /\ options.viewOnly /\ op.name = "sendPointerEvent"
  /\ state.connected /\ ws # 0 /\ sockets[ws].readyState = "OPEN"

\* C3: connected = true implies a stored ServerInit, phase 'connected',
\* width > 0 and height > 0.
C3_ConnectedImpliesScreen ==
  state.connected =>
    (serverInit # <<>> /\ vncState = "connected" /\ state.width > 0 /\ state.height > 0)

\* C4: connecting and connected are never both true.
C4_ConnectingConnectedExclusive == ~(state.connecting /\ state.connected)

\* C4 witness: a ServerInit has just moved a connecting session to Connected.
C4_Witness ==
  /\ op.name = "onmessage" /\ state.connected
  /\ Len(emitted) = 1 /\ emitted[1].type = "connected"

\* C5: from connecting = false and connected = false, only a connect() call (by
\* the user or by the reconnect timer) makes connecting or connected true.
C5_OnlyConnectLeavesIdle ==
  [][(~state.connecting /\ ~state.connected /\ (state'.connecting \/ state'.connected))
       => op'.name \in {"connect", "reconnectTimer"}]_vars

\* C6: connect() while connecting or connected throws 'Already connecting or
\* connected' and does nothing else: no field of the client, socket, promise or
\* timer changes, nothing is emitted or sent.
C6_ConnectWhileActiveRejected ==
  [][(op'.name = "connect" /\ (state.connecting \/ state.connected))
       => (thrown' = "Already connecting or connected" /\ emitted' = <<>> /\ sent' = <<>>
           /\ UNCHANGED <<clientVars, envVars>>)]_vars

\* C6 witness: connect() was rejected on a Connected session.
C6_Witness ==
  op.name = "connect" /\ thrown = "Already connecting or connected" /\ state.connected

\* C7: connect() with a URL that does not parse or whose scheme is not ws/wss
\* throws 'Invalid WebSocket URL' with no socket created and no connect timer
\* armed; afterwards connecting = connected = false, state.error is the message
\* and exactly one error event was emitted (after the connecting event).
C7_InvalidEndpointRejected ==
  (op.name = "connect" /\ options.url \in {HttpUrl, NoSchemeUrl}) =>
    /\ thrown = "Invalid WebSocket URL"
    /\ sockets = <<>> /\ ws = 0 /\ connectionTimeout = "null" /\ promises = <<>>
    /\ ~state.connecting /\ ~state.connected /\ state.error = "Invalid WebSocket URL"
    /\ emitted = <<[type |-> "connecting", message |-> Null],
                   [type |-> "error", message |-> "Invalid WebSocket URL"]>>

\* C7 witness: connect() was called with the http URL.
C7_Witness == op.name = "connect" /\ options.url = HttpUrl /\ thrown = "Invalid WebSocket URL"

\* C8: the promise of every accepted connect() call is settled once its attempt
\* has ended: a pending promise belongs to a session that is still connecting.
C8_NoPromiseLeftPending ==
  \A k \in 1..Len(promises) : promises[k] = "pending" => state.connecting

\* The fields disconnect() leaves.
C9_Disconnected ==
  /\ state = InitialState
  /\ reconnectAttempts = 0 /\ vncState = "version"
  /\ connectionTimeout = "null" /\ ws = 0

\* C9: disconnect() ends, from any state, with connected = connecting = false,
\* error = serverName = null, width = height = 0, reconnect counter 0, phase
\* 'version', no connect timer and no socket held; a second disconnect() right
\* after it leaves the client, the sockets, the promises and the timers unchanged.
C9_DisconnectIdempotent ==
  [][op'.name = "disconnect"
       => (C9_Disconnected' /\ (op.name = "disconnect" => UNCHANGED <<clientVars, envVars>>))]_vars

\* C9 witness: disconnect() ended a session that had reached Connected, closing
\* its socket.
C9_Witness ==
  /\ op.name = "disconnect" /\ serverInit # <<>>
  /\ \E i \in 1..Len(sockets) : sockets[i].readyState = "CLOSING" /\ ~sockets[i].onclose

\* Number of events of a type among the emissions of a step.
CountEmitted(events, type) == Cardinality({ i \in 1..Len(events) : events[i].type = type })

\* C10: two disconnect() calls in succession emit exactly one 'disconnected'
\* event in total: after a disconnect() call, the events of that call and the
\* events of a disconnect() call made now hold one 'disconnected' between them.
C10_OneDisconnectedForTwoCalls ==
  op.name = "disconnect" =>
    CountEmitted(emitted, "disconnected")
      + CountEmitted(disconnect(Begin(Op("disconnect", Null))).emitted, "disconnected") = 1

\* The callbacks of a WebSocket.
TransportOps == {"onopen", "onmessage", "onclose", "onerror"}

\* C11: disconnect() cancels every pending reconnect timer: a reconnect timer
\* that fires right after disconnect() returned starts no connection attempt
\* (no event, no new socket, connecting stays false).
C11_DisconnectCancelsReconnect ==
  [][(op.name = "disconnect" /\ op'.name = "reconnectTimer")
       => (emitted' = <<>> /\ sockets' = sockets /\ ~state'.connecting)]_vars

\* C12: disconnect() detaches the callbacks of the transport it closes: a
\* transport event that arrives right after disconnect() returned (no socket is
\* the session's transport then) changes no field of the client, settles no
\* promise, schedules no reconnect, emits nothing and writes nothing.
C12_DisconnectDetachesCallbacks ==
  [][(op.name = "disconnect" /\ op'.name \in TransportOps)
       => (UNCHANGED <<clientVars, promises, reconnectTimers>>
           /\ emitted' = <<>> /\ sent' = <<>>)]_vars

\* A close event that was given to handleConnectionClose: its operation record
\* carries the socket and the CloseEvent.
HandledClose(o) == o.name = "onclose" /\ Len(o.arg) = 2

\* C13: a close with code 1006 handled while connected = true and the reconnect
\* counter below maxReconnectAttempts increments the counter to n and schedules
\* exactly one reconnect timer, of min(1000 * 2^(n-1), 10000) ms; a reconnect
\* timer that fires while the session is neither connecting nor connected
\* starts a connect attempt: 'connecting' is emitted and a new socket becomes
\* the session's transport.
C13_ReconnectAfterAbnormalClose ==
  [][/\ (HandledClose(op') /\ op'.arg[2].code = 1006
           /\ state.connected /\ reconnectAttempts < maxReconnectAttempts)
        => (/\ reconnectAttempts' = reconnectAttempts + 1
            /\ Len(reconnectTimers') = Len(reconnectTimers) + 1
            /\ reconnectTimers'[Len(reconnectTimers')]
                 = (IF 1000 * 2^(reconnectAttempts' - 1) < 10000
                    THEN 1000 * 2^(reconnectAttempts' - 1) ELSE 10000)
            /\ SubSeq(reconnectTimers', 1, Len(reconnectTimers)) = reconnectTimers)
     /\ (op'.name = "reconnectTimer" /\ ~state.connecting /\ ~state.connected)
        => (/\ state'.connecting /\ ~state'.connected
            /\ Len(sockets') = Len(sockets) + 1 /\ ws' = Len(sockets')
            /\ sockets'[ws'].readyState = "CONNECTING"
            /\ Len(reconnectTimers') = Len(reconnectTimers) - 1
            /\ emitted' = <<[type |-> "connecting", message |-> Null]>>)]_vars

\* C13 witness: the timer of the first reconnect (counter 1) has fired and
\* started an attempt on a second socket.
C13_Witness ==
  /\ op.name = "reconnectTimer" /\ op.arg = 1000
  /\ state.connecting /\ reconnectAttempts = 1 /\ ws = 2

\* C14: automatic reconnection goes on across consecutive 1006 closes: while
\* the counter is above 0 and below maxReconnectAttempts, a 1006 close of an
\* attempt that did not reach Connected (with no reconnect pending any more)
\* schedules the next attempt; at maxReconnectAttempts no further attempt is
\* scheduled.  Either way the session is Disconnected after the close.
C14_ReconnectUntilMaxAttempts ==
  [][(HandledClose(op') /\ op'.arg[2].code = 1006 /\ ~state.connected
        /\ reconnectAttempts > 0 /\ reconnectTimers = <<>>)
       => (/\ ~state'.connected /\ ~state'.connecting
           /\ Len(reconnectTimers')
                = Len(reconnectTimers) + (IF reconnectAttempts < maxReconnectAttempts THEN 1 ELSE 0))]_vars

\* C15 as stated: a handled close with a code other than 1006 schedules no
\* reconnect and does not raise the reconnect counter; connected and connecting
\* are false afterwards.
C15_OtherCodesNeverCount ==
  [][(HandledClose(op') /\ op'.arg[2].code # 1006)
       => (/\ reconnectTimers' = reconnectTimers
           /\ reconnectAttempts' <= reconnectAttempts
           /\ ~state'.connected /\ ~state'.connecting)]_vars

\* C15, amended: a handled close with a code other than 1006 schedules no
\* reconnect and leaves connected = connecting = false; it leaves the reconnect
\* counter as it was, except that a close with code 1002 or 1003 arriving while
\* the counter is above 0 sets it to maxReconnectAttempts.
C15_OtherCodesNeverRetry ==
  [][(HandledClose(op') /\ op'.arg[2].code # 1006)
       => (/\ reconnectTimers' = reconnectTimers
           /\ reconnectAttempts'
                = (IF op'.arg[2].code \in {1002, 1003} /\ reconnectAttempts > 0
                   THEN maxReconnectAttempts ELSE reconnectAttempts)
           /\ ~state'.connected /\ ~state'.connecting)]_vars

\* C15 witness: a close with code 1002 was handled during a reconnect attempt
\* and has raised the counter to maxReconnectAttempts.
C15_Witness ==
  /\ HandledClose(op) /\ op.arg[2].code = 1002
  /\ reconnectAttempts = maxReconnectAttempts /\ ~state.connected /\ ~state.connecting

\* C16: once a close with code 1002 or 1003 has been handled, no timer starts a
\* connection attempt: in the state that close leaves, a pending reconnect
\* timer that fires emits nothing and opens no socket.
C16_ProtocolCloseStopsReconnect ==
  (HandledClose(op) /\ op.arg[2].code \in {1002, 1003}) =>
    \A t \in 1..Len(reconnectTimers) :
      LET m == ReconnectTimerCallback(
                 [Begin(Op("reconnectTimer", reconnectTimers[t])) EXCEPT
                    !.reconnectTimers = RemoveAt(@, t)])
      IN  m.emitted = <<>> /\ m.sockets = sockets /\ ~m.state.connecting

\* C17: the reconnect counter is at most maxReconnectAttempts, and it is 0
\* whenever connected = true.
C17_CounterBoundedAndResetOnConnected ==
  /\ reconnectAttempts <= maxReconnectAttempts
  /\ state.connected => reconnectAttempts = 0

\* C18: the connect timer firing while connecting = true leaves connected =
\* connecting = false, the socket closed and released (ws = null), state.error =
\* 'Connection timeout', exactly one error event with that message emitted and
\* the promise of the pending connect() call settled (rejected); firing while
\* connecting = false it changes nothing.
C18_ConnectTimeout ==
  [][op'.name = "connectionTimeout"
       => IF state.connecting
          THEN /\ ~state'.connected /\ ~state'.connecting
               /\ ws' = 0 /\ sockets'[ws].readyState \in {"CLOSING", "CLOSED"}
               /\ state'.error = "Connection timeout"
               /\ CountEmitted(emitted', "error") = 1
               /\ \E i \in 1..Len(emitted') :
                    emitted'[i] = [type |-> "error", message |-> "Connection timeout"]
               /\ promises'[ws] = "rejected"
          ELSE /\ UNCHANGED <<options, ws, state, serverInit, reconnectAttempts, vncState,
                              eventHandlers, sockets, promises, reconnectTimers>>
               /\ emitted' = <<>> /\ sent' = <<>>]_vars

\* The message of the last error event among the emissions of a step.
LastErrorMessage(events) ==
  events[CHOOSE i \in 1..Len(events) :
           /\ events[i].type = "error"
           /\ \A j \in (i + 1)..Len(events) : events[j].type # "error"].message

\* C19: after any step that emitted error events, state.error is the message
\* of the last error event emitted.
C19_ErrorHoldsLastMessage ==
  [][CountEmitted(emitted', "error") > 0 => state'.error = LastErrorMessage(emitted')]_vars

\* The Error message the close-code table gives for a close event (none for 1000).
C20_Message(event) ==
  CASE event.code = 1006 -> "Connection lost unexpectedly. Server may be unreachable or token expired."
    [] event.code = 1002 -> "Protocol error. Server rejected the connection."
    [] event.code = 1003 -> "Server rejected connection due to invalid data."
    [] event.code = 1008 -> "Connection rejected by policy (CORS, authentication, etc.)"
    [] event.code = 1011 -> "Server encountered an unexpected error."
    [] event = [code |-> 1001, reason |-> "Going away"] -> "Connection closed with code 1001: Going away"
    [] event = [code |-> 4000, reason |-> ""] -> "Connection closed with code 4000: Unknown reason"

\* C20: a handled close with code 1000 emits no error event, only one
\* 'disconnected', and leaves state.error as it was; a handled close with any
\* other code emits exactly one error event, with the message of the table, then
\* exactly one 'disconnected', and state.error is that message; connected and
\* connecting are false afterwards in both cases.
C20_CloseCodeTable ==
  [][HandledClose(op')
       => /\ ~state'.connected /\ ~state'.connecting
          /\ IF op'.arg[2].code = 1000
             THEN /\ emitted' = <<[type |-> "disconnected", message |-> Null]>>
                  /\ state'.error = state.error
             ELSE /\ emitted' = <<[type |-> "error", message |-> C20_Message(op'.arg[2])],
                                  [type |-> "disconnected", message |-> Null]>>
                  /\ state'.error = C20_Message(op'.arg[2])]_vars

\* C20 witness: a close with code 1008 was handled on a session that was
\* Connected, and its policy message is stored.
C20_Witness ==
  /\ HandledClose(op) /\ op.arg[2].code = 1008 /\ serverInit # <<>>
  /\ state.error = "Connection rejected by policy (CORS, authentication, etc.)"

\* Clamping of v to lo..hi.
Clamp(v, lo, hi) == IF v < lo THEN lo ELSE IF v > hi THEN hi ELSE v

\* C21: a pointer event written while Connected carries floor(x / scale) and
\* floor(y / scale) clamped to 0..width-1 and 0..height-1, as big-endian u16 at
\* offsets 2 and 4 of the message.
C21_PointerClamped ==
  (op.name = "sendPointerEvent" /\ sent # <<>> /\ state.width > 0 /\ state.height > 0) =>
    LET data == sent[1].data
        x == (op.arg.x * options.scale.den) \div options.scale.num
        y == (op.arg.y * options.scale.den) \div options.scale.num
    IN  /\ data[3] * 256 + data[4] = Clamp(x, 0, state.width - 1)
        /\ data[5] * 256 + data[6] = Clamp(y, 0, state.height - 1)

\* C22: sendKeyEvent with a key that has no keysym (a name of several characters
\* that is not in the table, here F1) writes nothing to the transport.
C22_UnknownKeyDiscarded ==
  (op.name = "sendKeyEvent" /\ op.arg.key = <<"F", "1">>) => sent = <<>>

\* The 16-bit field at offset o of a buffer holds v modulo 2^16, high byte first.
Holds16(buffer, o, v) ==
  /\ buffer[o + 1] \in 0..255
  /\ buffer[o + 2] \in 0..255
  /\ (buffer[o + 1] * 256 + buffer[o + 2] - v) % 65536 = 0

\* The byte at offset o of a buffer holds v modulo 2^8.
Holds8(buffer, o, v) == buffer[o + 1] \in 0..255 /\ (buffer[o + 1] - v) % 256 = 0

Flag(b) == IF b THEN 1 ELSE 0

\* C23: every builder of an outbound message returns a buffer of the exact length
\* with the exact type byte, for all its inputs: ClientInit is 1 byte, the shared
\* flag; SetPixelFormat is 20 bytes of type 0 with three padding bytes, the ten
\* fields of the format and three trailing zero bytes; FramebufferUpdateRequest
\* is 10 bytes of type 3 with the incremental flag and big-endian x, y, width,
\* height; KeyEvent is 8 bytes of type 4 with the down flag, two padding bytes
\* and the big-endian 32-bit key at offset 4; PointerEvent is 6 bytes of type 5
\* with the button mask and big-endian x, y.  A value wider than its field is
\* kept modulo the width of the field.
C23_BuildersExact ==
  LET a == op.arg
      r == returned
  IN  /\ op.name = "createClientInit" => r = <<Flag(a[1])>>
      /\ op.name = "createSetPixelFormat" =>
           /\ Len(r) = 20
           /\ SubSeq(r, 1, 4) = <<0, 0, 0, 0>>
           /\ Holds8(r, 4, a[1].bitsPerPixel) /\ Holds8(r, 5, a[1].depth)
           /\ r[7] = Flag(a[1].bigEndian) /\ r[8] = Flag(a[1].trueColor)
           /\ Holds16(r, 8, a[1].redMax) /\ Holds16(r, 10, a[1].greenMax)
           /\ Holds16(r, 12, a[1].blueMax)
           /\ Holds8(r, 14, a[1].redShift) /\ Holds8(r, 15, a[1].greenShift)
           /\ Holds8(r, 16, a[1].blueShift)
           /\ SubSeq(r, 18, 20) = <<0, 0, 0>>
      /\ op.name = "createFramebufferUpdateRequest" =>
           /\ Len(r) = 10
           /\ r[1] = 3
           /\ r[2] = Flag(a[1])
           /\ Holds16(r, 2, a[2]) /\ Holds16(r, 4, a[3])
           /\ Holds16(r, 6, a[4]) /\ Holds16(r, 8, a[5])
      /\ op.name = "createKeyEvent" =>
           /\ Len(r) = 8
           /\ r[1] = 4
           /\ r[2] = Flag(a[1])
           /\ r[3] = 0 /\ r[4] = 0
           /\ Holds16(r, 4, a[2] \div 65536) /\ Holds16(r, 6, a[2])
      /\ op.name = "createPointerEvent" =>
           /\ Len(r) = 6
           /\ r[1] = 5
           /\ Holds8(r, 1, a[1])
           /\ Holds16(r, 2, a[2]) /\ Holds16(r, 4, a[3])

\* createPointerEvent(1, 100, 200) has returned 05 01 00 64 00 C8.
C23_Witness ==
  /\ op = Op("createPointerEvent", <<1, 100, 200>>)
  /\ returned = <<5, 1, 0, 100, 0, 200>>

\* The application's handler h is in the handler array of event e.
Registered(handlers, e, h) == \E k \in 1..Len(handlers[e]) : handlers[e][k] = UserHandler(h)

\* C24: a handler registered with on and then removed with off is not invoked
\* by a later emission of that event, while the other handlers of that event
\* and the handlers of other events keep being invoked; off for a handler that
\* is not registered changes nothing.  As a property of every step: after
\* off(e, h) the handler h is no more among the handlers of e and the handlers
\* of every other event and every other handler of e are as before; only
\* handlers among the handlers of an event are invoked for it; every emission
\* of a step invokes every handler the application has among the handlers of
\* that event.
C24_OffRemovesOnlyThatHandler ==
  [][ /\ op'.name = "off" =>
           LET e == op'.arg[1]
               h == op'.arg[2]
           IN  /\ ~Registered(eventHandlers', e, h)
               /\ \A t \in EventTypes \ {e} : eventHandlers'[t] = eventHandlers[t]
               /\ \A g \in Listeners \ {h} :
                    Registered(eventHandlers', e, g) = Registered(eventHandlers, e, g)
               /\ ~Registered(eventHandlers, e, h) => eventHandlers' = eventHandlers
      /\ \A k \in 1..Len(called') :
           Registered(eventHandlers, called'[k].type, called'[k].handler)
      /\ \A k \in 1..Len(emitted') : \A h \in Listeners :
           Registered(eventHandlers, emitted'[k].type, h) =>
             \E j \in 1..Len(called') :
               called'[j] = [type |-> emitted'[k].type, handler |-> h]
    ]_vars

\* Client c of the hook is connecting or connected.
InSession(c) == clients[c].state.connecting \/ clients[c].state.connected

\* C25: with autoDisconnect not false, a client whose effect run was cleaned up
\* and whose 100 ms grace period has elapsed is either the client the mounted
\* component uses or is neither connecting nor connected.
C25_NoOrphanAfterGracePeriod ==
  hookOptions.autoDisconnect # FALSE =>
    \A c \in 1..Len(clients) :
      LET cleanedUp == c < clientRef \/ (c = clientRef /\ ~effectActive)
          pending == \E t \in 1..Len(cleanupTimers) : cleanupTimers[t] = c
      IN  (cleanedUp /\ ~pending) => ((c = clientRef /\ effectActive) \/ ~InSession(c))

\* The complete records a server sends during the handshake.
HandshakeRecords ==
  { <<82, 70, 66, 32, 48, 48, 51, 46, 48, 48, 56, 10>>, <<1, 1>>, <<2, 1, 2>>,
    <<0, 1, 2, 3, 4, 5, 6, 7, 8, 9, 10, 11, 12, 13, 14, 15>>, <<0, 0, 0, 0>>,
    ServerInitBytes(800, 600, 2, <<86, 77>>) }

\* Socket i can give a message to the client.
Delivers(i) ==
  /\ sockets[i].readyState \in {"OPEN", "CLOSING"}
  /\ sockets[i].opened
  /\ sockets[i].onmessage

\* What a run of message events leaves to be seen: phase, state, events, writes.
Outcome(m) == <<m.vncState, m.state, m.emitted, m.sent>>

\* C26: the handshake bytes give the same phases, writes and events however
\* they are split into frames: from every state that can receive a message, a
\* record delivered in one frame, the same record delivered in two frames cut
\* anywhere, and two records delivered in one frame or in two, end in the same
\* phase and state with the same writes and events.
C26_FramingIndependent ==
  \A i \in 1..Len(sockets) : Delivers(i) =>
    LET m == Begin(Op("onmessage", i))
    IN  /\ \A data \in HandshakeRecords : \A k \in 1..(Len(data) - 1) :
             Outcome(handleServerMessage(m, data))
               = Outcome(handleServerMessage(handleServerMessage(m, SubSeq(data, 1, k)),
                                             SubSeq(data, k + 1, Len(data))))
        /\ \A first \in HandshakeRecords, second \in HandshakeRecords :
             Outcome(handleServerMessage(m, first \o second))
               = Outcome(handleServerMessage(handleServerMessage(m, first), second))

\* C27: when the handling of an inbound message fails during the handshake
\* (an Error event is emitted by the message callback while connecting), the
\* same step closes the transport and leaves the session Disconnected: neither
\* connecting nor connected, no open transport, no reconnect scheduled.
C27_ProtocolFailureDisconnects ==
  [][ (/\ op'.name = "onmessage"
       /\ state.connecting
       /\ \E k \in 1..Len(emitted') : emitted'[k].type = "error")
      => /\ ~state'.connecting
         /\ ~state'.connected
         /\ sockets'[op'.arg].readyState \notin {"CONNECTING", "OPEN"}
         /\ reconnectTimers' = reconnectTimers
    ]_vars

\* C28: the connect timer is pending exactly while the session is connecting,
\* and no connect timer is pending in a step that emits Disconnected.
C28_TimerArmedIffConnecting ==
  /\ (connectionTimeout = "armed") <=> state.connecting
  /\ (\E k \in 1..Len(emitted) : emitted[k].type = "disconnected") => connectionTimeout # "armed"

\* The lists of security types a server offers: one to three of None (1),
\* VNC authentication (2) and a type the client lacks (19), in any order.
Offers == UNION { [1..n -> {1, 2, 19}] : n \in 1..3 }

\* The buffers a run of message events wrote to the transport, in order.
Writes(m) == Tuple([k \in 1..Len(m.sent) |-> m.sent[k].data])

\* C29: in the security phase, for every non-empty list of offered types and
\* with or without a password, the client chooses type 2 exactly when a
\* password is set and 2 is offered, else type 1 when it is offered, else it
\* fails with an Error and writes nothing.  Having chosen 2 it waits for the
\* challenge, having chosen 1 for ServerInit; when the session has an open
\* transport it writes to it the type byte alone for 2, the type byte and then
\* ClientInit for 1, and it never writes anything else.
C29_SecurityTypeChoice ==
  \A i \in 1..Len(sockets) : (Delivers(i) /\ vncState = "security") =>
    \A offered \in Offers :
      LET after == handleServerMessage(Begin(Op("onmessage", i)), <<Len(offered)>> \o Tuple(offered))
          has(t) == \E k \in 1..Len(offered) : offered[k] = t
          failed == \E k \in 1..Len(after.emitted) : after.emitted[k].type = "error"
          live == ws # 0 /\ sockets[ws].readyState = "OPEN"
      IN  IF options.password # <<>> /\ has(2)
          THEN /\ after.vncState = "auth" /\ ~failed
               /\ Writes(after) = IF live THEN << <<2>> >> ELSE <<>>
          ELSE IF has(1)
          THEN /\ after.vncState = "init" /\ ~failed
               /\ Writes(after) = IF live THEN << <<1>>, <<1>> >> ELSE <<>>
          ELSE Writes(after) = <<>> /\ after.vncState = "security" /\ failed

\* The client has answered an offer with type 2 and waits for the challenge.
C29_Witness ==
  /\ op.name = "onmessage"
  /\ vncState = "auth"
  /\ options.password # <<>>
  /\ Writes(Cur) = << <<2>> >>

\* Authentication results with a non-zero status: bare, and followed by a
\* reason of 0 to 9 characters "x".
AuthFailures ==
  { <<0, 0, 0, 1>>, <<0, 0, 0, 2>> }
    \cup { <<0, 0, 0, 1>> \o U32BE(n) \o Tuple([k \in 1..n |-> 120]) : n \in 0..9 }

\* C30: once a connecting client has answered the challenge, every authentication
\* result with a non-zero status, with or without a reason of any length,
\* fails with an Error: nothing is written (no second challenge response, no
\* ClientInit), the phase does not move on and the session is not connected;
\* a result with status zero writes ClientInit and moves to the init phase.
C30_AuthResult ==
  (/\ op.name = "onmessage"
   /\ vncState = "auth"
   /\ state.connecting /\ ~state.connected
   /\ ws = op.arg
   /\ sockets[ws].readyState = "OPEN"
   /\ Len(sent) = 1
   /\ Len(sent[1].data) = 16) =>
    /\ \A result \in AuthFailures :
         LET after == handleServerMessage(Begin(Op("onmessage", ws)), result)
         IN  /\ \E k \in 1..Len(after.emitted) : after.emitted[k].type = "error"
             /\ Writes(after) = <<>>
             /\ after.vncState = "auth"
             /\ ~after.state.connected
    /\ LET after == handleServerMessage(Begin(Op("onmessage", ws)), <<0, 0, 0, 0>>)
       IN  Writes(after) = << <<1>> >> /\ after.vncState = "init"

\* The entries of a sequence of effects that are of the given kind.
EffectsOf(kind, es) == SelectSeq(es, LAMBDA e : e.kind = kind)

\* The session has an open transport to write to.
Live == ws # 0 /\ sockets[ws].readyState = "OPEN"

\* C31: in a handshake with security type None every write made before the
\* session is connected is made by a message callback and is one of: the
\* 12-byte client version alone, on leaving the version phase; the type byte
\* [1] followed by ClientInit [1], on leaving the security phase; and, on
\* leaving the init phase, one non-incremental update request for (0, 0, width,
\* height) that comes after the Connected event and after every invocation of
\* a subscriber.  On an open transport each of these is written.
C31_NoneHandshakeWrites ==
  [][ (options.password = <<>> /\ ~state.connected) =>
        /\ sent' # <<>> =>
             /\ op'.name = "onmessage"
             /\ vncState \in {"version", "security", "init"}
        /\ (op'.name = "onmessage" /\ vncState = "version" /\ vncState' = "security") =>
             effects' = IF Live THEN <<Effect("send", "", ClientVersion)>> ELSE <<>>
        /\ (op'.name = "onmessage" /\ vncState = "security" /\ vncState' = "init") =>
             effects' = IF Live THEN <<Effect("send", "", <<1>>), Effect("send", "", <<1>>)>>
                        ELSE <<>>
        /\ (op'.name = "onmessage" /\ vncState = "init" /\ vncState' = "connected") =>
             LET n == Len(effects')
                 request == Effect("send", "",
                                   <<3, 0, 0, 0, 0, 0>>
                                     \o <<state'.width \div 256, state'.width % 256,
                                          state'.height \div 256, state'.height % 256>>)
             IN  /\ n >= 1
                 /\ effects'[1] = Effect("emit", "connected", <<>>)
                 /\ \A k \in 2..n : k < n \/ ~Live' => effects'[k].kind = "call"
                 /\ Live' => (n >= 2 /\ effects'[n] = request)
        /\ (op'.name = "onmessage" /\ sent' # <<>>) =>
             \/ vncState = "version" /\ vncState' = "security"
             \/ vncState = "security" /\ vncState' = "init"
             \/ vncState = "init" /\ vncState' = "connected"
    ]_vars

\* Connected has been emitted and delivered to a subscriber, then the first
\* update request was written.
C31_Witness ==
  /\ op.name = "onmessage"
  /\ vncState = "connected"
  /\ Len(effects) = 3
  /\ effects[1] = Effect("emit", "connected", <<>>)
  /\ effects[2].kind = "call"
  /\ effects[3] = Effect("send", "", <<3, 0, 0, 0, 0, 0, 3, 32, 2, 88>>)

\* C32: the server speaks first.  While the session is connecting and in the
\* version phase the only step that writes to the transport is the message callback that
\* takes it to the security phase, and every such step writes the 12-byte
\* client version, once, and nothing else: the open callback writes nothing, a
\* message that leaves the phase at version writes nothing, and no other call
\* writes before the version has been answered.
C32_ServerSpeaksFirst ==
  [][ (state.connecting /\ vncState = "version") =>
        /\ (op'.name = "onmessage" /\ vncState' = "security") =>
             Writes([sent |-> sent']) = <<ClientVersion>>
        /\ ~(op'.name = "onmessage" /\ vncState' = "security") => sent' = <<>>
    ]_vars

\* Records of 12 bytes and more that are no RFB version: "HTTP/1.1 400", twelve
\* zero bytes, "RFB 003.008" without its line feed and one byte more, and a
\* ServerInit.
MalformedVersions ==
  { <<72, 84, 84, 80, 47, 49, 46, 49, 32, 52, 48, 48>>,
    <<0, 0, 0, 0, 0, 0, 0, 0, 0, 0, 0, 0>>,
    <<82, 70, 66, 32, 48, 48, 51, 46, 48, 48, 56, 32, 10>>,
    ServerInitBytes(800, 600, 2, <<86, 77>>) }

\* C33: in the version phase of a connecting session, a record of at least 12
\* bytes that is not a well-formed RFB version makes the handshake fail: an
\* Error is emitted, no client version is written and the phase stays version.
C33_MalformedVersionRejected ==
  \A i \in 1..Len(sockets) :
    (Delivers(i) /\ ws = i /\ state.connecting /\ vncState = "version") =>
      \A data \in MalformedVersions :
        LET after == handleServerMessage(Begin(Op("onmessage", i)), data)
        IN  /\ \E k \in 1..Len(after.emitted) : after.emitted[k].type = "error"
            /\ after.sent = <<>>
            /\ after.vncState = "version"

\* Socket i has none of the client's callbacks any more.
Detached(i) ==
  ~sockets[i].onopen /\ ~sockets[i].onmessage /\ ~sockets[i].onclose /\ ~sockets[i].onerror

\* C34: at most one transport is open or opening, and every transport but the
\* one created last has been closed (is closing or closed) and has all four
\* callbacks detached.
C34_OneLiveTransport ==
  /\ Cardinality({ i \in 1..Len(sockets) : sockets[i].readyState \in {"CONNECTING", "OPEN"} }) <= 1
  /\ \A i \in 1..(Len(sockets) - 1) :
       sockets[i].readyState \in {"CLOSING", "CLOSED"} /\ Detached(i)

\* The application's handlers among the handlers of event type t, in
\* subscription order, each as the invocation it is due.
DueCalls(handlers, t) ==
  LET subscribed == SelectSeq(handlers[t], LAMBDA h : h.kind = "user")
  IN  Tuple([k \in 1..Len(subscribed) |-> Effect("call", t, <<subscribed[k].call>>)])

\* The emits of a step, each followed by the invocations due for it.
RECURSIVE DueDelivery(_, _)
DueDelivery(handlers, events) ==
  IF events = <<>> THEN <<>>
  ELSE <<Effect("emit", events[1].type, <<>>)>> \o DueCalls(handlers, events[1].type)
         \o DueDelivery(handlers, Tail(events))

\* C35: every emission of a step is delivered exactly once to every handler
\* the application has subscribed to that event type, in subscription order
\* and before the next emission, also when a one-shot listener of connect()
\* unsubscribes itself during the dispatch.
C35_EveryEmissionDelivered ==
  [][ SelectSeq(effects', LAMBDA e : e.kind # "send") = DueDelivery(eventHandlers, emitted') ]_vars


\* Ciphertexts of the standard DES, computed by an independent implementation:
\* triples <<block, key, ciphertext>>.
StandardDes ==
  { <<<<1, 35, 69, 103, 137, 171, 205, 239>>, <<19, 52, 87, 121, 155, 188, 223, 241>>, <<133, 232, 19, 84, 15, 10, 180, 5>>>>,
    <<<<135, 135, 135, 135, 135, 135, 135, 135>>, <<14, 50, 146, 50, 234, 109, 13, 115>>, <<0, 0, 0, 0, 0, 0, 0, 0>>>>,
    <<<<16, 0, 0, 0, 0, 0, 0, 1>>, <<48, 0, 0, 0, 0, 0, 0, 0>>, <<149, 142, 110, 98, 122, 5, 85, 123>>>>,
    <<<<78, 111, 119, 32, 105, 115, 32, 116>>, <<1, 35, 69, 103, 137, 171, 205, 239>>, <<63, 164, 14, 138, 152, 77, 72, 21>>>>,
    <<<<1, 35, 69, 103, 137, 171, 205, 239>>, <<254, 220, 186, 152, 118, 84, 50, 16>>, <<237, 57, 217, 80, 250, 116, 188, 196>>>>,
    <<<<255, 255, 255, 255, 255, 255, 255, 255>>, <<255, 255, 255, 255, 255, 255, 255, 255>>, <<115, 89, 178, 22, 62, 78, 220, 88>>>> }

\* VNC authentication by the standard DES with the key's bytes bit-reversed,
\* computed by an independent implementation: triples <<the first eight
\* password bytes zero-padded, 8-byte block, ciphertext>>.
StandardVncDes ==
  { <<<<97, 0, 0, 0, 0, 0, 0, 0>>, <<0, 0, 0, 0, 0, 0, 0, 0>>, <<121, 195, 48, 121, 154, 203, 110, 149>>>>,
    <<<<97, 0, 0, 0, 0, 0, 0, 0>>, <<255, 255, 255, 255, 255, 255, 255, 255>>, <<26, 100, 72, 224, 234, 110, 152, 207>>>>,
    <<<<97, 0, 0, 0, 0, 0, 0, 0>>, <<1, 35, 69, 103, 137, 171, 205, 239>>, <<101, 124, 12, 125, 33, 255, 77, 118>>>>,
    <<<<97, 0, 0, 0, 0, 0, 0, 0>>, <<78, 111, 119, 32, 105, 115, 32, 116>>, <<5, 5, 19, 206, 126, 62, 50, 98>>>>,
    <<<<97, 0, 0, 0, 0, 0, 0, 0>>, <<200, 7, 91, 164, 18, 255, 0, 129>>, <<227, 255, 35, 35, 223, 217, 116, 238>>>>,
    <<<<112, 119, 0, 0, 0, 0, 0, 0>>, <<0, 0, 0, 0, 0, 0, 0, 0>>, <<72, 192, 99, 95, 116, 12, 65, 177>>>>,
    <<<<112, 119, 0, 0, 0, 0, 0, 0>>, <<255, 255, 255, 255, 255, 255, 255, 255>>, <<253, 219, 157, 64, 42, 2, 113, 180>>>>,
    <<<<112, 119, 0, 0, 0, 0, 0, 0>>, <<1, 35, 69, 103, 137, 171, 205, 239>>, <<217, 238, 207, 212, 182, 239, 171, 19>>>>,
    <<<<112, 119, 0, 0, 0, 0, 0, 0>>, <<78, 111, 119, 32, 105, 115, 32, 116>>, <<126, 171, 130, 82, 120, 67, 134, 121>>>>,
    <<<<112, 119, 0, 0, 0, 0, 0, 0>>, <<200, 7, 91, 164, 18, 255, 0, 129>>, <<78, 227, 10, 151, 152, 155, 59, 62>>>>,
    <<<<115, 101, 99, 114, 101, 116, 0, 0>>, <<0, 0, 0, 0, 0, 0, 0, 0>>, <<150, 19, 162, 63, 29, 202, 197, 65>>>>,
    <<<<115, 101, 99, 114, 101, 116, 0, 0>>, <<255, 255, 255, 255, 255, 255, 255, 255>>, <<87, 71, 45, 0, 56, 242, 252, 29>>>>,
    <<<<115, 101, 99, 114, 101, 116, 0, 0>>, <<1, 35, 69, 103, 137, 171, 205, 239>>, <<45, 42, 13, 211, 131, 66, 108, 46>>>>,
    <<<<115, 101, 99, 114, 101, 116, 0, 0>>, <<78, 111, 119, 32, 105, 115, 32, 116>>, <<55, 207, 36, 31, 187, 33, 17, 0>>>>,
    <<<<115, 101, 99, 114, 101, 116, 0, 0>>, <<200, 7, 91, 164, 18, 255, 0, 129>>, <<189, 1, 190, 113, 227, 135, 207, 78>>>>,
    <<<<112, 97, 115, 115, 119, 111, 114, 100>>, <<0, 0, 0, 0, 0, 0, 0, 0>>, <<255, 151, 80, 46, 148, 34, 240, 137>>>>,
    <<<<112, 97, 115, 115, 119, 111, 114, 100>>, <<255, 255, 255, 255, 255, 255, 255, 255>>, <<48, 71, 84, 178, 219, 207, 217, 66>>>>,
    <<<<112, 97, 115, 115, 119, 111, 114, 100>>, <<1, 35, 69, 103, 137, 171, 205, 239>>, <<43, 35, 114, 87, 233, 249, 12, 129>>>>,
    <<<<112, 97, 115, 115, 119, 111, 114, 100>>, <<78, 111, 119, 32, 105, 115, 32, 116>>, <<235, 150, 110, 25, 98, 184, 65, 145>>>>,
    <<<<112, 97, 115, 115, 119, 111, 114, 100>>, <<200, 7, 91, 164, 18, 255, 0, 129>>, <<57, 117, 35, 249, 198, 250, 93, 113>>>> }


FirstEight(password) ==
  LET bytes == stringToUint8Array(password)
  IN  Tuple([i \in 1..8 |-> IF i <= Len(bytes) THEN bytes[i] ELSE 0])

StandardResponse(password, half) ==
  (CHOOSE t \in StandardVncDes : t[1] = FirstEight(password) /\ t[2] = half)[3]

\* C36: the authentication response is the standard DES in ECB mode applied
\* to each 8-byte half of the 16-byte challenge, under the key made of the
\* first eight password bytes (zero-padded when shorter, cut when longer) with
\* the bits of each byte reversed; it is 16 bytes long, and passwords agreeing
\* on their first eight bytes give the same response. The block cipher itself
\* gives the published ciphertexts of the standard DES.
C36_AuthResponseIsVncDes ==
  /\ op.name = "vncDesEncrypt" =>
        \E t \in StandardDes : t[1] = op.arg[1] /\ t[2] = op.arg[2] /\ returned = t[3]
  /\ op.name = "vncEncrypt" =>
        LET password == op.arg[1]
            challenge == op.arg[2]
        IN  /\ Len(returned) = 16
            /\ returned = StandardResponse(password, SubSeq(challenge, 1, 8))
                             \o StandardResponse(password, SubSeq(challenge, 9, 16))
            /\ \A other \in AuthPasswords :
                  FirstEight(other) = FirstEight(password) =>
                    vncEncrypt(other, challenge) = returned

\* A password longer than eight bytes answered a challenge of two different halves.
C36_Witness ==
  /\ op.name = "vncEncrypt"
  /\ Len(op.arg[1]) > 8
  /\ SubSeq(op.arg[2], 1, 8) # SubSeq(op.arg[2], 9, 16)
  /\ Len(returned) = 16
  /\ SubSeq(returned, 1, 8) # SubSeq(returned, 9, 16)

\* A one-shot listener of the connect() call k is registered.
OneShotRegistered(handlers, k) ==
  \/ \E i \in 1..Len(handlers["connected"]) : handlers["connected"][i] = onConnectedOf(k)
  \/ \E i \in 1..Len(handlers["error"]) : handlers["error"][i] = onErrorOf(k)

\* C37: the promise of a connect() call is settled only by the outcome of its
\* own attempt.  As a property of every step: a pending promise of a call that
\* is not the latest one, in a session whose reconnect counter is 0 (the
\* earlier attempt was ended by disconnect() or by a close with code 1000 and a
\* later connect() was made), is still pending after the step; and in a state
\* where no attempt is under way and none is scheduled (not connecting, no
\* reconnect timer pending) no one-shot listener of a connect() call is
\* registered.
C37_SettledByOwnAttemptOnly ==
  [][/\ \A k \in 1..Len(promises) :
          (k < Len(promises) /\ reconnectAttempts = 0 /\ promises[k] = "pending")
            => promises'[k] = "pending"
     /\ (~state'.connecting /\ reconnectTimers' = <<>>)
          => \A k \in 1..Len(promises') : ~OneShotRegistered(eventHandlers', k)]_vars

\* ServerInit messages of 24 bytes or more whose declared name length exceeds
\* the name bytes present.
CutShortServerInits ==
  { ServerInitBytes(800, 600, 9, <<86, 77>>),
    ServerInitBytes(1024, 768, 1, <<>>),
    ServerInitBytes(640, 480, 65536, <<86, 77, 49, 50, 51>>) }

\* C38: a ServerInit of at least 24 bytes whose declared name length exceeds
\* the bytes present, delivered in the init phase, makes the client emit one
\* Error event and nothing else, and leaves the session as it was: connected
\* keeps its value (false in a session that is not yet connected), the phase
\* stays init, width, height, serverName and the parsed ServerInit keep their
\* values, the connect timer keeps its state (armed while connecting), no
\* Connected event is emitted and nothing is written.
C38_CutShortServerInitRejected ==
  \A i \in 1..Len(sockets), data \in CutShortServerInits :
    (/\ sockets[i].readyState \in {"OPEN", "CLOSING"}
     /\ sockets[i].opened
     /\ sockets[i].onmessage
     /\ vncState = "init")
    => LET m == handleServerMessage(Begin(Op("onmessage", i)), data)
       IN  /\ Len(m.emitted) = 1
           /\ m.emitted[1].type = "error"
           /\ m.state.connected = state.connected
           /\ ~state.connected => ~m.state.connected
           /\ m.state.connecting = state.connecting
           /\ m.vncState = "init"
           /\ m.state.width = state.width
           /\ m.state.height = state.height
           /\ m.state.serverName = state.serverName
           /\ m.serverInit = serverInit
           /\ m.connectionTimeout = connectionTimeout
           /\ (state.connecting /\ connectionTimeout = "armed") => m.connectionTimeout = "armed"
           /\ m.sent = <<>>

\* The cut-short ServerInit of the server frames was delivered in the init
\* phase of a connecting session whose timer is armed.
C38_Witness ==
  /\ op.name = "onmessage"
  /\ vncState = "init"
  /\ state.connecting
  /\ connectionTimeout = "armed"
  /\ emitted = <<[type |-> "error", message |-> "Protocol error: Invalid typed array length: 9"]>>

LifecycleEvents == {"connecting", "connected", "disconnected", "error"}

\* The step ran code of client c of the hook.
StepOn(o, c) ==
  \/ o.name = "effect" /\ o.arg = c
  \/ o.name \in {"onopen", "onmessage", "onclose"} /\ o.arg[1] = c

\* C39: the hook mirrors its client.  As a property of every step that leaves
\* the component with its effect run and a current client: when the step ran
\* code of that client and delivered a lifecycle event (connecting, connected,
\* disconnected, error) to handleEvent, the hook's state equals the client's
\* getState() and loading equals the client's connecting flag; and the hook's
\* state.connecting and loading are true exactly when the client is connecting.
C39_HookMirrorsClient ==
  [][(effectActive' /\ clientRef' # 0) =>
       LET client == clients'[clientRef']
       IN  /\ (/\ StepOn(op', clientRef')
               /\ \E k \in 1..Len(client.called) :
                    /\ client.called[k].handler = handleEvent.call
                    /\ client.called[k].type \in LifecycleEvents)
              => /\ hook'.state = client.state
                 /\ hook'.loading = client.state.connecting
           /\ hook'.state.connecting = client.state.connecting
           /\ hook'.loading = client.state.connecting]_vars
=============================================================================
